---- MODULE Spec2Model ----
(***************************************************************************)
(* A model of the releaser's release cache and of the serving layer built *)
(* on it.  The repository holds two generations of the cache:             *)
(*   - pkg/cache/cache.go (go-github v40): Cache.update, with a commit    *)
(*     reference diff, concurrent binary downloads and checksum           *)
(*     validation;                                                        *)
(*   - the cache of unnamed/part_002 (go-github v55): Cache.doUpdate,     *)
(*     which keeps checksums and artifact names of all releases and the   *)
(*     binaries of the latest release only.                               *)
(* A process runs one of them: impl is chosen in Init.                    *)
(*                                                                         *)
(* Strings are sequences of one-character strings, byte slices sequences  *)
(* of small numbers, Go maps functions with a finite domain.              *)
(***************************************************************************)
EXTENDS Integers, Sequences, FiniteSets, TLC

VARIABLES
    impl,                   \* which generation of the cache this process runs
    srv,                    \* position of Server.Start
    loop,                   \* position of updateLoop / updater
    mu,                     \* Cache.mu: [writer |-> BOOLEAN, readers |-> set of readers]
    releaseNames,           \* part_002 Cache.releaseNames
    checksums,              \* Cache.checksums (both generations)
    releaseArtifactNames,   \* part_002 Cache.releaseArtifactNames
    latestReleaseName,      \* part_002 Cache.latestReleaseName
    latestReleaseArtifacts, \* part_002 Cache.latestReleaseArtifacts
    versions,               \* cache.go Cache.versions
    releases,               \* cache.go Cache.releases
    latest,                 \* cache.go Cache.latest
    du,                     \* the frame of the running doUpdate (part_002)
    up,                     \* the frame of the running update (cache.go)
    rd,                     \* the request handlers' accessor calls in progress
    pf,                     \* the file name or manifest being parsed, and the outcome
    cl,                     \* the frame of the client's DownloadReleaseArtifactAndVerify
    an,                     \* the analytics package: its handler, and what went through it
    obs                     \* history: what the current / last cycle did

vars == <<impl, srv, loop, mu, releaseNames, checksums, releaseArtifactNames,
          latestReleaseName, latestReleaseArtifacts, versions, releases, latest,
          du, up, rd, pf, cl, an, obs>>

newFields == <<releaseNames, releaseArtifactNames, latestReleaseName, latestReleaseArtifacts>>
oldFields == <<versions, releases, latest>>

(***************************************************************************)
(* Strings                                                                 *)
(***************************************************************************)
UpperChars == <<"V", "P", "L", "A">>
LowerChars == <<"v", "p", "l", "a">>

\* unicode.ToLower on one character
LowerChar(c) ==
    IF \E i \in 1..Len(UpperChars) : UpperChars[i] = c
    THEN LowerChars[CHOOSE i \in 1..Len(UpperChars) : UpperChars[i] = c]
    ELSE c

\* strings.ToLower
ToLower(s) == [i \in 1..Len(s) |-> LowerChar(s[i])]

\* strings.HasSuffix
HasSuffix(s, suffix) ==
    /\ Len(s) >= Len(suffix)
    /\ SubSeq(s, Len(s) - Len(suffix) + 1, Len(s)) = suffix

\* strings.TrimSuffix
TrimSuffix(s, suffix) ==
    IF HasSuffix(s, suffix) THEN SubSeq(s, 1, Len(s) - Len(suffix)) ELSE s

\* strings.Index: the first position of sep in s, 0 when there is none
\* (Go returns -1 and counts from 0)
Index(s, sep) ==
    LET hits == {i \in 1..(Len(s) - Len(sep) + 1) : SubSeq(s, i, i + Len(sep) - 1) = sep}
    IN IF hits = {} THEN 0 ELSE CHOOSE i \in hits : \A j \in hits : i <= j

\* strings.Split with a non-empty separator
RECURSIVE Split(_, _)
Split(s, sep) ==
    LET i == Index(s, sep)
    IN IF i = 0 THEN <<s>>
       ELSE <<SubSeq(s, 1, i - 1)>> \o Split(SubSeq(s, i + Len(sep), Len(s)), sep)

\* strings.Join
RECURSIVE Join(_, _)
Join(elems, sep) ==
    IF Len(elems) = 0 THEN <<>>
    ELSE IF Len(elems) = 1 THEN elems[1]
    ELSE elems[1] \o sep \o Join(Tail(elems), sep)

IsSpace(c) == c \in {" ", "\n", "\t", "\r"}

\* strings.TrimSpace
RECURSIVE TrimLeft(_)
TrimLeft(s) == IF Len(s) > 0 /\ IsSpace(s[1]) THEN TrimLeft(Tail(s)) ELSE s
RECURSIVE TrimRight(_)
TrimRight(s) ==
    IF Len(s) > 0 /\ IsSpace(s[Len(s)]) THEN TrimRight(SubSeq(s, 1, Len(s) - 1)) ELSE s
TrimSpace(s) == TrimRight(TrimLeft(s))

\* The lines bufio.Reader.ReadString('\n') returns without an error: each ends
\* with the delimiter.  The rest of the stream, which has no delimiter, comes
\* back together with io.EOF.
RECURSIVE ReadLines(_)
ReadLines(stream) ==
    LET i == Index(stream, <<"\n">>)
    IN IF i = 0 THEN <<>>
       ELSE <<SubSeq(stream, 1, i)>> \o ReadLines(SubSeq(stream, i + 1, Len(stream)))

\* fmt.Sprintf("%x", sha256.Sum256(b)): a digest, taken to be free of
\* collisions, printed in hexadecimal
Sha256Hex(b) == <<"h">> \o [i \in 1..Len(b) |-> IF b[i] = 1 THEN "1" ELSE "2"]

(***************************************************************************)
(* Go maps                                                                 *)
(***************************************************************************)
EmptyMap == [k \in {} |-> {}]

\* m[k] = v
Put(m, k, v) == [x \in (DOMAIN m) \cup {k} |-> IF x = k THEN v ELSE m[x]]

\* _, ok := m[k]
Has(m, k) == k \in DOMAIN m

\* for i, kv := range kvs { m[kv[1]] = kv[2] }: a later entry of a key wins
PutAll(m, kvs) ==
    LET ks == {kvs[i][1] : i \in 1..Len(kvs)}
        last(k) == CHOOSE i \in 1..Len(kvs) :
                      /\ kvs[i][1] = k
                      /\ \A j \in 1..Len(kvs) : kvs[j][1] = k => j <= i
    IN [x \in (DOMAIN m) \cup ks |-> IF x \in ks THEN kvs[last(x)][2] ELSE m[x]]

(***************************************************************************)
(* File names, keys and checksum manifests                                 *)
(***************************************************************************)
ChecksumsTxt == <<"c", "h", "e", "c", "k", "s", "u", "m", "s", ".", "t", "x", "t">>
TarGz == <<".", "t", "a", "r", ".", "g", "z">>
Underscore == <<"_">>
TwoSpaces == <<" ", " ">>

\* ArtifactOSArch taking the fourth token alone for the architecture
ArtifactOSArch_OneArchToken(name) ==
    LET split == Split(TrimSuffix(name, TarGz), Underscore)
    IN IF Len(split) > 3 THEN <<split[3], split[4]>>
       ELSE IF Len(split) > 2 THEN <<split[3], <<>> >>
       ELSE <<>>

\* trimmed := strings.TrimSuffix(name, ".tar.gz"); split := strings.Split(trimmed, "_");
\* with len(split) > 2 the OS is split[2] and the architecture
\* strings.Join(split[3:], "_") (Go counts from 0).  <<>> stands for a
\* malformed name, which the callers log and skip.
ArtifactOSArch(name) ==
    LET split == Split(TrimSuffix(name, TarGz), Underscore)
    IN IF Len(split) > 2
       THEN <<split[3], Join(SubSeq(split, 4, Len(split)), Underscore)>>
       ELSE <<>>

\* One line of checksums.txt: <<os, arch, digest>>, or <<>> for a line that
\* is logged and skipped.
ChecksumLineEntry(line) ==
    LET checksumLine == Split(TrimSpace(line), TwoSpaces)
    IN IF Len(checksumLine) > 1 /\ HasSuffix(checksumLine[2], TarGz)
       THEN LET oa == ArtifactOSArch(checksumLine[2])
            IN IF oa # <<>> THEN <<oa[1], oa[2], checksumLine[1]>> ELSE <<>>
       ELSE <<>>

\* The entries of a whole manifest, in the order of its lines
ManifestEntries(stream) ==
    LET lines == ReadLines(stream)
    IN SelectSeq([i \in 1..Len(lines) |-> ChecksumLineEntry(lines[i])],
                 LAMBDA e : e # <<>>)

\* part_002's artifact key (release, OS, architecture)
toArtifactKey(releaseName, os, arch) == <<releaseName, os, arch>>

\* cache.go's releaseKey{Version, OS, Arch}
releaseKey(version, os, arch) == [Version |-> version, OS |-> os, Arch |-> arch]

(***************************************************************************)
(* The upstream repository: what ListReleases and DownloadReleaseAsset     *)
(* can answer.                                                             *)
(***************************************************************************)
Line(digest, file) == digest \o TwoSpaces \o file \o <<"\n">>

Bin1 == <<"p", "_", "1", "_", "l", "_", "a">> \o TarGz
Bin2 == <<"p", "_", "2", "_", "l", "_", "a">> \o TarGz
Bin3 == <<"P", "_", "1", "_", "L", "_", "a", "_", "v">> \o TarGz
BinMalformed == <<"p", "_", "1">> \o TarGz

\* The body an asset id downloads to: a manifest (characters) or a binary (bytes)
AssetBody(id) ==
    CASE id = 1 -> Line(Sha256Hex(<<1>>), Bin1)
      [] id = 2 -> <<1>>
      [] id = 3 -> Line(Sha256Hex(<<1>>), Bin2)
      [] id = 4 -> <<2>>
      [] id = 5 -> <<2>>
      [] id = 6 -> Line(Sha256Hex(<<1>>), Bin3) \o Line(Sha256Hex(<<2>>), BinMalformed)
      [] id = 7 -> <<1>>
      [] id = 8 -> <<2>>
      [] OTHER -> <<>>

Asset(id, name) == [ID |-> id, Name |-> name]
Release(name, commitish, assets) ==
    [Name |-> name, TargetCommitish |-> commitish, Assets |-> assets]

\* v1: manifest first, a binary that matches it
RelA == Release(<<"V", "1">>, "c1", <<Asset(1, ChecksumsTxt), Asset(2, Bin1)>>)
\* v2: the binary listed before the manifest, and not matching it
RelB == Release(<<"v", "2">>, "c2", <<Asset(4, Bin2), Asset(3, ChecksumsTxt)>>)
\* v1 rebuilt from another commit: one binary and no manifest
RelA2 == Release(<<"v", "1">>, "c3", <<Asset(5, Bin1)>>)
\* v1 rebuilt again: a multi-token architecture, upper case and a malformed name
RelA3 == Release(<<"v", "1">>, "c4",
                 <<Asset(6, ChecksumsTxt), Asset(7, Bin3), Asset(8, BinMalformed)>>)

ListingTable == << <<>>, <<RelA>>, <<RelB, RelA>>, <<RelA2>>, <<RelA3, RelB>> >>

\* How many of the listings of ListingTable the upstream can answer with
NumListings == 4

Listings ==
    {ListingTable[i] : i \in 1..(IF NumListings < Len(ListingTable)
                                 THEN NumListings ELSE Len(ListingTable))}

(***************************************************************************)
(* Parsing on its own: one asset name or one manifest, as a cycle handles  *)
(* it                                                                      *)
(***************************************************************************)
PfIdle == [op |-> "none", pc |-> "idle", tokens |-> <<>>, suffix |-> FALSE,
           lines |-> <<>>, newline |-> FALSE, table |-> EmptyMap, err |-> "nil"]

\* The longest asset name, in tokens between underscores, and the longest
\* manifest, in lines
MaxTokens == 5
MaxLines == 2

\* Asset names are made of tokens joined with "_", with or without ".tar.gz"
Tokens == {<<"p">>, <<"l">>, <<"a">>}
TokenSeqs == UNION {[1..n -> Tokens] : n \in 1..MaxTokens}
FileName(tokens, suffix) == Join(tokens, Underscore) \o (IF suffix THEN TarGz ELSE <<>>)

\* The lines of a manifest: a digest, one or two spaces, a file name
FileTokens == {<<<<"p">>, <<"1">>>>,
               <<<<"p">>, <<"1">>, <<"l">>>>,
               <<<<"p">>, <<"1">>, <<"l">>, <<"a">>>>,
               <<<<"p">>, <<"1">>, <<"l">>, <<"a">>, <<"v">>>>}
Separators == {<<" ">>, TwoSpaces}
LineForms == [sep : Separators, tokens : FileTokens, suffix : BOOLEAN]
Digest(i) == <<"d", IF i = 1 THEN "1" ELSE IF i = 2 THEN "2" ELSE "3">>
LineText(lines, i) ==
    Digest(i) \o lines[i].sep \o FileName(lines[i].tokens, lines[i].suffix)

\* The bytes of checksums.txt: the lines with a newline between them, and
\* one at the end when newline holds
RECURSIVE ManifestText(_, _, _)
ManifestText(lines, i, newline) ==
    IF i > Len(lines) THEN <<>>
    ELSE LineText(lines, i)
         \o (IF i < Len(lines) \/ newline THEN <<"\n">> ELSE <<>>)
         \o ManifestText(lines, i + 1, newline)

\* The release whose assets are parsed
ParseRelease == <<"v", "1">>

\* part_002 lines 428 and 463-472: one asset of a release that is not its
\* manifest (cache.go: lines 224 and 244-251)
Parse_AssetName ==
    /\ pf.op = "name" /\ pf.pc = "start"
    /\ LET assetName == ToLower(FileName(pf.tokens, pf.suffix))
           oa == ArtifactOSArch(assetName)
       IN pf' = [pf EXCEPT
                   !.pc = "done",
                   !.table = IF HasSuffix(assetName, TarGz) /\ oa # <<>>
                             THEN Put(EmptyMap, toArtifactKey(ParseRelease, oa[1], oa[2]),
                                      assetName)
                             ELSE EmptyMap]
    /\ UNCHANGED <<an, cl, impl, srv, loop, mu, checksums, newFields, oldFields, du, up, rd, obs>>

\* part_002 lines 437-462: the manifest of a release, read to its end
\* (cache.go: lines 195-222)
Parse_Manifest ==
    /\ pf.op = "manifest" /\ pf.pc = "start"
    /\ LET entries == ManifestEntries(ManifestText(pf.lines, 1, pf.newline))
           kvs == [i \in 1..Len(entries) |->
                     <<toArtifactKey(ParseRelease, entries[i][1], entries[i][2]),
                       entries[i][3]>>]
       IN pf' = [pf EXCEPT !.pc = "done", !.table = PutAll(EmptyMap, kvs)]
    /\ UNCHANGED <<an, cl, impl, srv, loop, mu, checksums, newFields, oldFields, du, up, rd, obs>>

(***************************************************************************)
(* State shared by the two generations                                     *)
(***************************************************************************)
Readers == {"h1"}

\* The process is running: no goroutine has panicked, Server.Start has not
\* returned an error (run's RunE then returns and the process exits) and RunE
\* has not returned after Server.Stop
Alive == loop # "panicked" /\ srv \notin {"failed", "exited"}

MuFree == ~mu.writer /\ mu.readers = {}

\* The fields a cycle publishes
Snapshot ==
    IF impl = "doUpdate"
    THEN <<releaseNames, checksums, releaseArtifactNames, latestReleaseName,
           latestReleaseArtifacts>>
    ELSE <<versions, releases, checksums, latest>>

\* History, for the properties of doUpdate, which compares no commit
\* references: the releases of the listing rs that prev, the listing of the
\* last cycle that returned nil, had under the same name with the same commit
\* reference
SameCommitAsBefore(rs, prev) ==
    {[ri |-> i, name |-> ToLower(rs[i].Name)] :
        i \in {i \in 1..Len(rs) :
                 \E j \in 1..Len(prev) :
                     /\ ToLower(prev[j].Name) = ToLower(rs[i].Name)
                     /\ prev[j].TargetCommitish = rs[i].TargetCommitish}}

\* AfterCycle panicking on the error of any cycle
AfterCycle_AlwaysFatal(err) == IF err # "nil" THEN "panicked" ELSE "waiting"

\* AfterCycle leaving the loop, without a reset of the timer, on an error
AfterCycle_ReturnsOnError(err) ==
    IF err = "nil" THEN "waiting"
    ELSE IF loop = "initial" THEN "panicked" ELSE "returned"

\* updateLoop / updater after a cycle has returned: the error of the initial
\* cycle panics, a later one is logged and the timer is reset
AfterCycle(err) == IF loop = "initial" /\ err # "nil" THEN "panicked" ELSE "waiting"

(***************************************************************************)
(* part_002: Cache.doUpdate                                                *)
(***************************************************************************)
DuIdle ==
    [pc |-> "idle", releases |-> <<>>, ri |-> 0, ai |-> 0,
     releaseNames |-> {}, checksums |-> EmptyMap, releaseArtifactNames |-> EmptyMap,
     latestReleaseArtifacts |-> EmptyMap]

\* return err / return nil
DuReturn(err, downloads) ==
    /\ du' = DuIdle
    /\ loop' = AfterCycle(err)
    /\ obs' = [obs EXCEPT !.lastReturn = err, !.downloads = downloads]

\* The place of the next asset after (ri, ai) in the nested range loops over
\* releases and their assets; <<0, 0>> when the loops are over
RECURSIVE NextAsset(_, _, _)
NextAsset(rs, ri, ai) ==
    IF ri > Len(rs) THEN <<0, 0>>
    ELSE IF ai + 1 <= Len(rs[ri].Assets) THEN <<ri, ai + 1>>
    ELSE NextAsset(rs, ri + 1, 0)

\* doUpdate_ListError with the error path dropping the published tables
doUpdate_ListError_Resets ==
    /\ du' = DuIdle
    /\ loop' = AfterCycle("errList")
    /\ obs' = [obs EXCEPT !.begin = Snapshot, !.downloads = {}, !.kept = {},
                          !.lastReturn = "errList"]
    /\ releaseNames' = {}
    /\ checksums' = EmptyMap
    /\ releaseArtifactNames' = EmptyMap
    /\ UNCHANGED <<latestReleaseName, latestReleaseArtifacts>>

\* lines 408-411: ListReleases fails and doUpdate returns the error
doUpdate_ListError ==
    /\ du' = DuIdle
    /\ loop' = AfterCycle("errList")
    /\ obs' = [obs EXCEPT !.begin = Snapshot, !.downloads = {}, !.kept = {},
                          !.lastReturn = "errList"]
    /\ UNCHANGED <<checksums, newFields>>

\* doUpdate_Start by a timer that fires whether or not the cycle before has
\* returned
doUpdate_Start_OnEveryTick ==
    /\ Alive /\ impl = "doUpdate"
    /\ loop \in {"initial", "waiting"}
    /\ du' = [DuIdle EXCEPT !.pc = "list"]
    /\ obs' = [obs EXCEPT !.begin = Snapshot, !.downloads = {}, !.kept = {},
                          !.failed = {}, !.lastReturn = "running"]
    /\ UNCHANGED <<an, cl, pf, impl, srv, loop, mu, checksums, newFields, oldFields, up, rd>>

\* updateLoop lines 539 and 553, doUpdate lines 403-407: the cycle starts, at
\* startup or when the timer fires, and calls ListReleases
doUpdate_Start ==
    /\ Alive /\ impl = "doUpdate"
    /\ loop \in {"initial", "waiting"}
    /\ du.pc = "idle"
    /\ du' = [DuIdle EXCEPT !.pc = "list"]
    /\ obs' = [obs EXCEPT !.begin = Snapshot, !.downloads = {}, !.kept = {},
                          !.failed = {}, !.lastReturn = "running"]
    /\ UNCHANGED <<an, cl, pf, impl, srv, loop, mu, checksums, newFields, oldFields, up, rd>>

\* lines 407-425: ListReleases answers; doUpdate returns at once on an error
\* or on an empty listing.  The local releaseNames, which the range loop
\* fills release by release and nothing reads before the loop is over, is
\* filled here.
doUpdate_List ==
    /\ Alive /\ impl = "doUpdate"
    /\ du.pc = "list"
    /\ UNCHANGED <<an, cl, pf, impl, srv, mu, oldFields, up, rd>>
    /\ \/ doUpdate_ListError
       \/ /\ UNCHANGED <<checksums, newFields>>
          /\ \E rs \in Listings :
               IF Len(rs) < 1
               THEN /\ du' = DuIdle
                    /\ loop' = AfterCycle("nil")
                    /\ obs' = [obs EXCEPT !.begin = Snapshot, !.downloads = {},
                                          !.kept = {}, !.lastReturn = "nil",
                                          !.listing = rs]
               ELSE /\ LET first == NextAsset(rs, 1, 0)
                       IN du' = [DuIdle EXCEPT
                                   !.pc = IF first = <<0, 0>> THEN "publish1" ELSE "assets",
                                   !.releases = rs, !.ri = first[1], !.ai = first[2],
                                   !.releaseNames =
                                       {ToLower(rs[i].Name) : i \in 1..Len(rs)}]
                    /\ loop' = loop
                    /\ obs' = [obs EXCEPT !.begin = Snapshot, !.downloads = {},
                                          !.kept = SameCommitAsBefore(rs, obs.listing),
                                          !.lastReturn = "running"]

\* lines 423-475: one asset of one release
doUpdate_Asset ==
    /\ Alive /\ impl = "doUpdate"
    /\ du.pc = "assets"
    /\ UNCHANGED <<an, cl, pf, impl, srv, mu, checksums, newFields, oldFields, up, rd>>
    /\ LET release == du.releases[du.ri]
           releaseName == ToLower(release.Name)
           asset == release.Assets[du.ai]
           assetName == ToLower(asset.Name)
           next == NextAsset(du.releases, du.ri, du.ai)
           advanced == [du EXCEPT !.pc = IF next = <<0, 0>> THEN "publish1" ELSE "assets",
                                  !.ri = next[1], !.ai = next[2]]
           called == obs.downloads \cup {[ri |-> du.ri, id |-> asset.ID]}
       IN IF assetName = ChecksumsTxt
          THEN \/ DuReturn("errManifest", called)   \* the download or a read fails
               \/ /\ LET entries == ManifestEntries(AssetBody(asset.ID))
                         kvs == [i \in 1..Len(entries) |->
                                   <<toArtifactKey(releaseName, entries[i][1], entries[i][2]),
                                     entries[i][3]>>]
                     IN du' = [advanced EXCEPT !.checksums = PutAll(du.checksums, kvs)]
                  /\ obs' = [obs EXCEPT !.downloads = called]
                  /\ loop' = loop
          ELSE /\ IF HasSuffix(assetName, TarGz) /\ ArtifactOSArch(assetName) # <<>>
                  THEN LET oa == ArtifactOSArch(assetName)
                           key == toArtifactKey(releaseName, oa[1], oa[2])
                       IN du' = [advanced EXCEPT !.releaseArtifactNames =
                                                   Put(du.releaseArtifactNames, key, assetName)]
                  ELSE du' = advanced
               /\ UNCHANGED <<obs, loop>>

\* lines 477 and 524: c.mu.Lock()
doUpdate_Lock ==
    /\ Alive /\ impl = "doUpdate"
    /\ du.pc \in {"publish1", "publish2"}
    /\ MuFree
    /\ mu' = [mu EXCEPT !.writer = TRUE]
    /\ du' = [du EXCEPT !.pc = IF du.pc = "publish1" THEN "publish1_locked"
                                                      ELSE "publish2_locked"]
    /\ UNCHANGED <<an, cl, pf, impl, srv, loop, checksums, newFields, oldFields, up, rd, obs>>

\* doUpdate_Publish1 keeping the lock until the second publish
doUpdate_Publish1_HoldsLock ==
    /\ Alive /\ impl = "doUpdate"
    /\ du.pc = "publish1_locked"
    /\ releaseNames' = du.releaseNames
    /\ checksums' = du.checksums
    /\ releaseArtifactNames' = du.releaseArtifactNames
    /\ mu' = mu
    /\ LET latestRelease == du.releases[1]
       IN du' = [du EXCEPT
                   !.pc = IF /\ latestReleaseName # ToLower(latestRelease.Name)
                             /\ Len(latestRelease.Assets) > 0
                          THEN "latest" ELSE "publish2_locked",
                   !.ri = 1, !.ai = 1]
    /\ obs' = [obs EXCEPT !.latestStale = TRUE]
    /\ UNCHANGED <<an, cl, pf, impl, srv, loop, latestReleaseName, latestReleaseArtifacts,
                   oldFields, up, rd>>

\* doUpdate_Publish1 leaving the release set of the cycle before in place
doUpdate_Publish1_KeepsNames ==
    /\ Alive /\ impl = "doUpdate"
    /\ du.pc = "publish1_locked"
    /\ releaseNames' = releaseNames
    /\ checksums' = du.checksums
    /\ releaseArtifactNames' = du.releaseArtifactNames
    /\ mu' = [mu EXCEPT !.writer = FALSE]
    /\ LET latestRelease == du.releases[1]
       IN du' = [du EXCEPT
                   !.pc = IF /\ latestReleaseName # ToLower(latestRelease.Name)
                             /\ Len(latestRelease.Assets) > 0
                          THEN "latest" ELSE "publish2",
                   !.ri = 1, !.ai = 1]
    /\ obs' = [obs EXCEPT !.latestStale = TRUE]
    /\ UNCHANGED <<an, cl, pf, impl, srv, loop, latestReleaseName, latestReleaseArtifacts,
                   oldFields, up, rd>>

\* lines 478-487: the first publish, and the choice between downloading the
\* binaries of the latest release and skipping them
doUpdate_Publish1 ==
    /\ Alive /\ impl = "doUpdate"
    /\ du.pc = "publish1_locked"
    /\ releaseNames' = du.releaseNames
    /\ checksums' = du.checksums
    /\ releaseArtifactNames' = du.releaseArtifactNames
    /\ mu' = [mu EXCEPT !.writer = FALSE]
    /\ LET latestRelease == du.releases[1]
       IN du' = [du EXCEPT
                   !.pc = IF /\ latestReleaseName # ToLower(latestRelease.Name)
                             /\ Len(latestRelease.Assets) > 0
                          THEN "latest" ELSE "publish2",
                   !.ri = 1, !.ai = 1]
    /\ obs' = [obs EXCEPT !.latestStale = TRUE]
    /\ UNCHANGED <<an, cl, pf, impl, srv, loop, latestReleaseName, latestReleaseArtifacts,
                   oldFields, up, rd>>

\* doUpdate_LatestAsset downloading nothing of a release whose commit reference
\* is the one of the cycle before
doUpdate_LatestAsset_SkipsKept ==
    /\ Alive /\ impl = "doUpdate"
    /\ du.pc = "latest"
    /\ UNCHANGED <<an, cl, pf, impl, srv, mu, checksums, newFields, oldFields, up, rd>>
    /\ LET latestRelease == du.releases[1]
           name == ToLower(latestRelease.Name)
           asset == latestRelease.Assets[du.ai]
           assetName == ToLower(asset.Name)
           advanced == [du EXCEPT !.pc = IF du.ai + 1 <= Len(latestRelease.Assets)
                                         THEN "latest" ELSE "publish2",
                                  !.ai = du.ai + 1]
           called == obs.downloads \cup {[ri |-> 1, id |-> asset.ID]}
       IN IF HasSuffix(assetName, TarGz) /\ ~(\E e \in obs.kept : e.ri = 1)
          THEN \/ DuReturn("errBinary", called)     \* the download or io.ReadAll fails
               \/ /\ LET artifactBytes == AssetBody(asset.ID)
                         oa == ArtifactOSArch(assetName)
                     IN IF oa # <<>>
                        THEN du' = [advanced EXCEPT !.latestReleaseArtifacts =
                                       Put(du.latestReleaseArtifacts,
                                           toArtifactKey(name, oa[1], oa[2]), artifactBytes)]
                        ELSE du' = advanced
                  /\ obs' = [obs EXCEPT !.downloads = called]
                  /\ loop' = loop
          ELSE /\ du' = advanced
               /\ UNCHANGED <<obs, loop>>

\* lines 489-519: one asset of the latest release
doUpdate_LatestAsset ==
    /\ Alive /\ impl = "doUpdate"
    /\ du.pc = "latest"
    /\ UNCHANGED <<an, cl, pf, impl, srv, mu, checksums, newFields, oldFields, up, rd>>
    /\ LET latestRelease == du.releases[1]
           name == ToLower(latestRelease.Name)
           asset == latestRelease.Assets[du.ai]
           assetName == ToLower(asset.Name)
           advanced == [du EXCEPT !.pc = IF du.ai + 1 <= Len(latestRelease.Assets)
                                         THEN "latest" ELSE "publish2",
                                  !.ai = du.ai + 1]
           called == obs.downloads \cup {[ri |-> 1, id |-> asset.ID]}
       IN IF HasSuffix(assetName, TarGz)
          THEN \/ DuReturn("errBinary", called)     \* the download or io.ReadAll fails
               \/ /\ LET artifactBytes == AssetBody(asset.ID)
                         oa == ArtifactOSArch(assetName)
                     IN IF oa # <<>>
                        THEN du' = [advanced EXCEPT !.latestReleaseArtifacts =
                                       Put(du.latestReleaseArtifacts,
                                           toArtifactKey(name, oa[1], oa[2]), artifactBytes)]
                        ELSE du' = advanced
                  /\ obs' = [obs EXCEPT !.downloads = called]
                  /\ loop' = loop
          ELSE /\ du' = advanced
               /\ UNCHANGED <<obs, loop>>

\* doUpdate_Publish2 adding the new blobs to the old map instead of replacing it
doUpdate_Publish2_KeepsOldBlobs ==
    /\ Alive /\ impl = "doUpdate"
    /\ du.pc = "publish2_locked"
    /\ latestReleaseName' = ToLower(du.releases[1].Name)
    /\ latestReleaseArtifacts' =
         [k \in (DOMAIN latestReleaseArtifacts) \cup (DOMAIN du.latestReleaseArtifacts) |->
            IF Has(du.latestReleaseArtifacts, k) THEN du.latestReleaseArtifacts[k]
            ELSE latestReleaseArtifacts[k]]
    /\ mu' = [mu EXCEPT !.writer = FALSE]
    /\ du' = DuIdle
    /\ loop' = AfterCycle("nil")
    /\ obs' = [obs EXCEPT !.lastReturn = "nil", !.latestStale = FALSE,
                          !.listing = du.releases]
    /\ UNCHANGED <<an, cl, pf, impl, srv, releaseNames, checksums, releaseArtifactNames,
                   oldFields, up, rd>>

\* doUpdate_Publish2 taking the last release of the listing for the latest one
doUpdate_Publish2_LastListed ==
    /\ Alive /\ impl = "doUpdate"
    /\ du.pc = "publish2_locked"
    /\ latestReleaseName' = ToLower(du.releases[Len(du.releases)].Name)
    /\ latestReleaseArtifacts' = du.latestReleaseArtifacts
    /\ mu' = [mu EXCEPT !.writer = FALSE]
    /\ du' = DuIdle
    /\ loop' = AfterCycle("nil")
    /\ obs' = [obs EXCEPT !.lastReturn = "nil", !.latestStale = FALSE,
                          !.listing = du.releases]
    /\ UNCHANGED <<an, cl, pf, impl, srv, releaseNames, checksums, releaseArtifactNames,
                   oldFields, up, rd>>

\* lines 525-531: the second publish, and return nil
doUpdate_Publish2 ==
    /\ Alive /\ impl = "doUpdate"
    /\ du.pc = "publish2_locked"
    /\ latestReleaseName' = ToLower(du.releases[1].Name)
    /\ latestReleaseArtifacts' = du.latestReleaseArtifacts
    /\ mu' = [mu EXCEPT !.writer = FALSE]
    /\ du' = DuIdle
    /\ loop' = AfterCycle("nil")
    /\ obs' = [obs EXCEPT !.lastReturn = "nil", !.latestStale = FALSE,
                          !.listing = du.releases]
    /\ UNCHANGED <<an, cl, pf, impl, srv, releaseNames, checksums, releaseArtifactNames,
                   oldFields, up, rd>>

(***************************************************************************)
(* part_002: Server.Start                                                  *)
(***************************************************************************)
\* lines 83-87 with cache.New and Cache.init (lines 309-323, 395-399): the
\* cache is built empty, updateLoop is started as a goroutine, and New
\* returns without waiting for it
Server_Start_New ==
    /\ srv = "created"
    /\ srv' = "cache"
    /\ loop' = "initial"
    /\ UNCHANGED <<an, cl, pf, impl, mu, checksums, newFields, oldFields, du, up, rd, obs>>

\* lines 89-104: net.Listen, then the application serves requests
Server_Start_Listen ==
    /\ Alive
    /\ srv = "cache"
    /\ srv' \in {"listening", "failed"}
    /\ UNCHANGED <<an, cl, pf, impl, loop, mu, checksums, newFields, oldFields, du, up, rd, obs>>

(***************************************************************************)
(* part_002: the read accessors, called by the request handlers            *)
(***************************************************************************)
ReleaseArgs == {<<"v", "1">>, <<"V", "1">>, <<"v", "2">>}
OSArgs == {<<"l">>}
ArchArgs == {<<"a">>}

\* What a read of a string that is being written can yield besides the old
\* and the new value: a mix of the two string headers
Torn == <<"?">>

RdIdle ==
    [op |-> "none", pc |-> "idle", name |-> <<>>, os |-> <<>>, arch |-> <<>>,
     key |-> <<>>, res |-> <<>>, snap1 |-> <<>>, snap2 |-> <<>>,
     handler |-> "none", expect |-> <<>>]

\* The repository of the configuration
RepositoryOwner == <<"o">>
Repository == <<"r">>

\* line 248: fmt.Sprintf("https://github.com/%s/%s/releases/download/%s/%s", ...)
RedirectURL(releaseName, artifactName) ==
    <<"https://github.com/">> \o RepositoryOwner \o <<"/">> \o Repository
        \o <<"/releases/download/">> \o releaseName \o <<"/">> \o artifactName

NotFound == [status |-> 404, body |-> <<>>, location |-> <<>>]

\* lines 216-248: the response of Server.GetReleaseArtifact to a request for
\* releaseName, given the accessor it called last and what that returned
GetReleaseArtifact_Response(op, releaseName, res) ==
    IF res = <<>> THEN NotFound
    ELSE IF op = "GetLatestReleaseArtifact"
         THEN [status |-> 200, body |-> res, location |-> <<>>]
         ELSE [status |-> 302, body |-> <<>>,
               location |-> RedirectURL(releaseName, res)]

\* The response the retrieval policy gives to a request for (n, o, a) that
\* found n to be the latest release (isLatest) or not, on the published
\* fields s of part_002
ArtifactPolicy(isLatest, s, n, o, a) ==
    LET key == toArtifactKey(n, o, a)
    IN IF isLatest
       THEN IF Has(s[5], key)
            THEN [status |-> 200, body |-> s[5][key], location |-> <<>>]
            ELSE NotFound
       ELSE IF Has(s[3], key)
            THEN [status |-> 302, body |-> <<>>, location |-> RedirectURL(n, s[3][key])]
            ELSE NotFound

\* History, for the properties of Server.GetReleaseArtifact: what the
\* retrieval policy gives at the read that decides the response
Expected(r) ==
    IF rd[r].handler = "none" THEN <<>>
    ELSE ArtifactPolicy(rd[r].op = "GetLatestReleaseArtifact", Snapshot,
                        rd[r].name, rd[r].os, rd[r].arch)


Triple == <<releaseNames, checksums, releaseArtifactNames>>

\* A handler of the listening server calls an accessor
Call(r) ==
    /\ Alive /\ impl = "doUpdate"
    /\ srv = "listening"
    /\ rd[r].pc \in {"idle", "done"}
    /\ \/ \E op \in {"GetLatestReleaseName", "GetAllReleaseNames"} :
            rd' = [rd EXCEPT ![r] = [RdIdle EXCEPT !.op = op, !.pc = "rlock"]]
       \/ \E n \in ReleaseArgs :
            rd' = [rd EXCEPT ![r] = [RdIdle EXCEPT !.op = "ReleaseNameExists",
                                                   !.pc = "exists_rlock", !.name = n]]
       \/ \E op \in {"GetChecksum", "GetReleaseArtifactName"} :
          \E n \in ReleaseArgs, o \in OSArgs, a \in ArchArgs :
            rd' = [rd EXCEPT ![r] = [RdIdle EXCEPT !.op = op, !.pc = "exists_rlock",
                                                   !.name = n, !.os = o, !.arch = a]]
       \/ \E o \in OSArgs, a \in ArchArgs :
            rd' = [rd EXCEPT ![r] = [RdIdle EXCEPT !.op = "GetLatestReleaseArtifact",
                                                   !.pc = "key", !.os = o, !.arch = a]]
    /\ UNCHANGED <<an, cl, pf, impl, srv, loop, mu, checksums, newFields, oldFields, du, up, obs>>

\* lines 210-215: Server.GetReleaseArtifact lower-cases the release name of
\* the request and asks the cache for the latest release name
Server_GetReleaseArtifact(r) ==
    /\ Alive /\ impl = "doUpdate"
    /\ srv = "listening"
    /\ rd[r].pc \in {"idle", "done"}
    /\ \E n \in ReleaseArgs, o \in OSArgs, a \in ArchArgs :
         rd' = [rd EXCEPT ![r] = [RdIdle EXCEPT !.handler = "GetReleaseArtifact",
                                                !.op = "GetLatestReleaseName",
                                                !.pc = "rlock", !.name = ToLower(n),
                                                !.os = o, !.arch = a]]
    /\ UNCHANGED <<an, cl, pf, impl, srv, loop, mu, checksums, newFields, oldFields, du, up, obs>>

\* c.mu.RLock() of any accessor: lines 327, 334, 345, 361, 372, 386
RLock(r) ==
    /\ Alive /\ impl = "doUpdate"
    /\ rd[r].pc \in {"rlock", "exists_rlock", "lookup_rlock"}
    /\ ~mu.writer
    /\ mu' = [mu EXCEPT !.readers = @ \cup {r}]
    /\ rd' = [rd EXCEPT ![r].pc = CASE rd[r].pc = "rlock" -> "read"
                                    [] rd[r].pc = "exists_rlock" -> "exists_read"
                                    [] OTHER -> "lookup_read"]
    /\ UNCHANGED <<an, cl, pf, impl, srv, loop, checksums, newFields, oldFields, du, up, obs>>

RUnlock(r) == mu' = [mu EXCEPT !.readers = @ \ {r}]

\* lines 326-330, called by a handler that returns the name, or by
\* Server.GetReleaseArtifact (line 215), which goes on with
\* GetLatestReleaseArtifact (216) when the name is the requested one and with
\* GetReleaseArtifactName (235) when it is not
GetLatestReleaseName(r) ==
    /\ Alive /\ rd[r].op = "GetLatestReleaseName" /\ rd[r].pc = "read"
    /\ rd' = [rd EXCEPT ![r] =
                IF rd[r].handler = "GetReleaseArtifact"
                THEN IF latestReleaseName = rd[r].name
                     THEN [@ EXCEPT !.op = "GetLatestReleaseArtifact", !.pc = "key"]
                     ELSE [@ EXCEPT !.op = "GetReleaseArtifactName",
                                    !.pc = "exists_rlock"]
                ELSE [@ EXCEPT !.res = latestReleaseName, !.pc = "done"]]
    /\ RUnlock(r)
    /\ UNCHANGED <<an, cl, pf, impl, srv, loop, checksums, newFields, oldFields, du, up, obs>>

\* lines 333-341
GetAllReleaseNames(r) ==
    /\ Alive /\ rd[r].op = "GetAllReleaseNames" /\ rd[r].pc = "read"
    /\ rd' = [rd EXCEPT ![r].res = releaseNames, ![r].pc = "done"]
    /\ RUnlock(r)
    /\ UNCHANGED <<an, cl, pf, impl, srv, loop, checksums, newFields, oldFields, du, up, obs>>

\* ReleaseNameExists not releasing the read lock when a lookup follows
ReleaseNameExists_KeepsLock(r) ==
    /\ Alive /\ rd[r].pc = "exists_read"
    /\ LET ok == rd[r].name \in releaseNames
       IN rd' = [rd EXCEPT ![r] =
                   IF rd[r].op = "ReleaseNameExists"
                   THEN [@ EXCEPT !.res = ok, !.pc = "done"]
                   ELSE IF ~ok THEN [@ EXCEPT !.res = <<>>, !.pc = "done", !.snap1 = Triple,
                                              !.expect = Expected(r)]
                   ELSE [@ EXCEPT !.pc = "lookup_rlock", !.snap1 = Triple]]
    /\ mu' = IF rd'[r].pc = "lookup_rlock" THEN mu
             ELSE [mu EXCEPT !.readers = @ \ {r}]
    /\ UNCHANGED <<an, cl, pf, impl, srv, loop, checksums, newFields, oldFields, du, up, obs>>

\* lines 344-349, called by a handler (the result is returned) or by
\* GetChecksum and GetReleaseArtifactName (lines 355-357, 382-384: "" is
\* returned when the release is not there, and the lookup follows otherwise)
ReleaseNameExists(r) ==
    /\ Alive /\ rd[r].pc = "exists_read"
    /\ LET ok == rd[r].name \in releaseNames
       IN rd' = [rd EXCEPT ![r] =
                   IF rd[r].op = "ReleaseNameExists"
                   THEN [@ EXCEPT !.res = ok, !.pc = "done"]
                   ELSE IF ~ok THEN [@ EXCEPT !.res = <<>>, !.pc = "done", !.snap1 = Triple,
                                              !.expect = Expected(r)]
                   ELSE [@ EXCEPT !.pc = "lookup_rlock", !.snap1 = Triple]]
    /\ RUnlock(r)
    /\ UNCHANGED <<an, cl, pf, impl, srv, loop, checksums, newFields, oldFields, du, up, obs>>

\* Lookup answering with a value of its own when the key is absent
Lookup_Default(r, m, key) ==
    /\ rd' = [rd EXCEPT ![r].res = IF Has(m, key) THEN m[key] ELSE <<"?">>,
                        ![r].pc = "done",
                        ![r].snap2 = Triple,
                        ![r].expect = Expected(r)]
    /\ RUnlock(r)
    /\ UNCHANGED <<an, cl, pf, impl, srv, loop, checksums, newFields, oldFields, du, up, obs>>

\* The lookup of m under the read lock: the value, or "" / nil when absent.
\* snap1 and snap2 record, for the properties, the tables as they were at the
\* existence check and at the lookup.
Lookup(r, m, key) ==
    /\ rd' = [rd EXCEPT ![r].res = IF Has(m, key) THEN m[key] ELSE <<>>,
                        ![r].pc = "done",
                        ![r].snap2 = Triple,
                        ![r].expect = Expected(r)]
    /\ RUnlock(r)
    /\ UNCHANGED <<an, cl, pf, impl, srv, loop, checksums, newFields, oldFields, du, up, obs>>

\* GetChecksum looking the key up in the artifact names
GetChecksum_WrongTable(r) ==
    /\ Alive /\ rd[r].op = "GetChecksum" /\ rd[r].pc = "lookup_read"
    /\ Lookup(r, releaseArtifactNames, toArtifactKey(rd[r].name, rd[r].os, rd[r].arch))

\* lines 359-367
GetChecksum(r) ==
    /\ Alive /\ rd[r].op = "GetChecksum" /\ rd[r].pc = "lookup_read"
    /\ Lookup(r, checksums, toArtifactKey(rd[r].name, rd[r].os, rd[r].arch))

\* lines 385-392
GetReleaseArtifactName(r) ==
    /\ Alive /\ rd[r].op = "GetReleaseArtifactName" /\ rd[r].pc = "lookup_read"
    /\ Lookup(r, releaseArtifactNames, toArtifactKey(rd[r].name, rd[r].os, rd[r].arch))

\* line 371: c.latestReleaseName is read before the lock is taken.  While
\* doUpdate is inside its second critical section (writing the field) the
\* read races with the write and yields the old value, the new one or a mix.
GetLatestReleaseArtifact_Key(r) ==
    /\ Alive /\ rd[r].op = "GetLatestReleaseArtifact" /\ rd[r].pc = "key"
    /\ \E n \in IF du.pc = "publish2_locked"
                THEN {latestReleaseName, ToLower(du.releases[1].Name)}
                     \cup (IF latestReleaseName # ToLower(du.releases[1].Name)
                           THEN {Torn} ELSE {})
                ELSE {latestReleaseName} :
         rd' = [rd EXCEPT ![r].key = toArtifactKey(n, rd[r].os, rd[r].arch),
                          ![r].pc = "lookup_rlock"]
    /\ UNCHANGED <<an, cl, pf, impl, srv, loop, mu, checksums, newFields, oldFields, du, up, obs>>

\* lines 372-378
GetLatestReleaseArtifact(r) ==
    /\ Alive /\ rd[r].op = "GetLatestReleaseArtifact" /\ rd[r].pc = "lookup_read"
    /\ Lookup(r, latestReleaseArtifacts, rd[r].key)

\* The status with which the handler built on an accessor answers, given what
\* the accessor returned: Server.GetReleaseShellScript (lines 145-147) on
\* ReleaseNameExists, Server.GetChecksum (lines 193-196) on GetChecksum,
\* Server.GetReleaseArtifact (lines 236-238, 248) on GetReleaseArtifactName
HandlerStatus(op, res) ==
    CASE op = "ReleaseNameExists" -> IF res = FALSE THEN 404 ELSE 200
      [] op = "GetChecksum" -> IF Len(res) = 0 THEN 404 ELSE 200
      [] op = "GetReleaseArtifactName" -> IF res = <<>> THEN 404 ELSE 302
      [] OTHER -> 200

(***************************************************************************)
(* pkg/cache/cache.go: Cache.update                                        *)
(***************************************************************************)
UpIdle ==
    [pc |-> "idle", releases |-> <<>>, toUpdate |-> <<>>, toKeep |-> <<>>,
     updatedVersions |-> EmptyMap, latest |-> <<>>,
     updatedReleases |-> EmptyMap, updatedChecksums |-> EmptyMap,
     ri |-> 0, ai |-> 0, tasks |-> {},
     pending |-> <<>>, downloaded |-> {}, updateMu |-> {}]

\* The goroutine of update itself, as a holder of updateMu
Main == [ri |-> 0, releaseName |-> <<>>, assetID |-> 0, assetName |-> <<>>]

\* Changed comparing no commit reference
Changed_NewOnly(release) == ~Has(versions, ToLower(release.Name))

\* line 159: the release is not known or its commit reference has changed
Changed(release) ==
    LET releaseName == ToLower(release.Name)
    IN \/ ~Has(versions, releaseName)
       \/ release.TargetCommitish # versions[releaseName]

\* DownloadList ranging over the whole listing
DownloadList_All(rs, toUpdate) == [i \in 1..Len(rs) |-> i]

\* line 174: the releases whose assets are downloaded, as places in the listing
DownloadList(rs, toUpdate) == toUpdate

\* The place of the next asset after (ri, ai) in the range loops of line 174
\* and 176; ri counts in list, a sequence of places in the listing rs
RECURSIVE NextOf(_, _, _, _)
NextOf(rs, list, ri, ai) ==
    IF ri > Len(list) THEN <<0, 0>>
    ELSE IF ai + 1 <= Len(rs[list[ri]].Assets) THEN <<ri, ai + 1>>
    ELSE NextOf(rs, list, ri + 1, 0)

\* lines 141-144: ListReleases fails and update returns the error
update_ListError ==
    /\ up' = UpIdle
    /\ loop' = AfterCycle("errList")
    /\ obs' = [obs EXCEPT !.begin = Snapshot, !.downloads = {}, !.kept = {},
                          !.lastReturn = "errList"]
    /\ UNCHANGED <<checksums, oldFields>>

\* updater lines 333 and 347, update lines 137-140: the cycle starts, at
\* startup or when the timer fires, and calls ListReleases
update_Start ==
    /\ Alive /\ impl = "update"
    /\ loop \in {"initial", "waiting"}
    /\ up.pc = "idle"
    /\ up' = [UpIdle EXCEPT !.pc = "list"]
    /\ obs' = [obs EXCEPT !.begin = Snapshot, !.downloads = {}, !.kept = {},
                          !.failed = {}, !.lastReturn = "running"]
    /\ UNCHANGED <<an, cl, pf, impl, srv, loop, mu, checksums, newFields, oldFields, du, rd>>

\* lines 140-172: ListReleases answers; update returns on an error, and else
\* sorts the releases into those to update and those to keep, under the
\* read lock
update_List ==
    /\ Alive /\ impl = "update"
    /\ up.pc = "list"
    /\ UNCHANGED <<an, cl, pf, impl, srv, mu, newFields, du, rd>>
    /\ \/ update_ListError
       \/ /\ ~mu.writer
          /\ UNCHANGED <<checksums, oldFields, loop>>
          /\ \E rs \in Listings :
               LET idx == [i \in 1..Len(rs) |-> i]
                   toUpdate == SelectSeq(idx, LAMBDA i : Changed(rs[i]))
                   toKeep == SelectSeq(idx, LAMBDA i : ~Changed(rs[i]))
                   list == DownloadList(rs, toUpdate)
                   first == NextOf(rs, list, 1, 0)
               IN /\ up' = [UpIdle EXCEPT
                              !.pc = IF first = <<0, 0>> THEN "wait" ELSE "assets",
                              !.releases = rs,
                              !.toUpdate = list,
                              !.toKeep = toKeep,
                              !.updatedVersions =
                                  PutAll(EmptyMap, [i \in 1..Len(rs) |->
                                      <<ToLower(rs[i].Name), rs[i].TargetCommitish>>]),
                              !.latest = IF Len(rs) > 0 THEN ToLower(rs[1].Name) ELSE <<>>,
                              !.ri = first[1], !.ai = first[2]]
                  /\ obs' = [obs EXCEPT !.begin = Snapshot, !.downloads = {},
                                        !.kept = {[ri |-> toKeep[i],
                                                   name |-> ToLower(rs[toKeep[i]].Name)] :
                                                  i \in 1..Len(toKeep)},
                                        !.lastReturn = "running"]

\* lines 175-223 and 273-275: one asset of a release to update, on the
\* goroutine of update: the manifest is downloaded and parsed, a binary gets a
\* goroutine of its own.  An error return leaves the goroutines already
\* started behind; they end within their 30 s deadlines, before the next
\* tick of the one-minute timer, and write only to maps nobody reads.
update_Asset ==
    /\ Alive /\ impl = "update"
    /\ up.pc = "assets"
    /\ up.pending = <<>>
    /\ UNCHANGED <<an, cl, pf, impl, srv, mu, checksums, newFields, oldFields, du, rd>>
    /\ LET release == up.releases[up.toUpdate[up.ri]]
           releaseName == ToLower(release.Name)
           asset == release.Assets[up.ai]
           assetName == ToLower(asset.Name)
           next == NextOf(up.releases, up.toUpdate, up.ri, up.ai)
           advanced == [up EXCEPT !.pc = IF next = <<0, 0>> THEN "wait" ELSE "assets",
                                  !.ri = next[1], !.ai = next[2]]
           called == obs.downloads \cup {[ri |-> up.toUpdate[up.ri], id |-> asset.ID]}
       IN IF assetName = ChecksumsTxt
          THEN \/ /\ up' = UpIdle                   \* the download or io.ReadAll fails
                  /\ loop' = AfterCycle("errManifest")
                  /\ obs' = [obs EXCEPT !.lastReturn = "errManifest", !.downloads = called]
               \/ /\ LET entries == ManifestEntries(AssetBody(asset.ID))
                         kvs == [i \in 1..Len(entries) |->
                                   <<releaseKey(releaseName, entries[i][1], entries[i][2]),
                                     entries[i][3]>>]
                     IN up' = [advanced EXCEPT !.pending = kvs]
                  /\ obs' = [obs EXCEPT !.downloads = called]
                  /\ loop' = loop
          ELSE /\ IF HasSuffix(assetName, TarGz)
                  THEN up' = [advanced EXCEPT !.tasks = @ \cup
                                {[ri |-> up.toUpdate[up.ri], releaseName |-> releaseName,
                                  assetID |-> asset.ID, assetName |-> assetName]}]
                  ELSE up' = advanced
               /\ UNCHANGED <<obs, loop>>

\* line 212: updateMu.Lock() for the entry of one manifest line
update_Checksum_Lock ==
    /\ Alive /\ impl = "update"
    /\ up.pending # <<>>
    /\ up.updateMu = {}
    /\ up' = [up EXCEPT !.updateMu = {Main}]
    /\ UNCHANGED <<an, cl, pf, impl, srv, loop, mu, checksums, newFields, oldFields, du, rd, obs>>

\* lines 213-214: the entry is written and updateMu released
update_Checksum_Put ==
    /\ Alive /\ impl = "update"
    /\ Main \in up.updateMu
    /\ up' = [up EXCEPT !.updatedChecksums = Put(@, up.pending[1][1], up.pending[1][2]),
                        !.pending = Tail(@),
                        !.updateMu = @ \ {Main}]
    /\ UNCHANGED <<an, cl, pf, impl, srv, loop, mu, checksums, newFields, oldFields, du, rd, obs>>

\* lines 254-266, under updateMu: what the goroutine of a binary leaves in
\* updatedReleases
Validate(updatedReleases, updatedChecksums, key, assetBytes) ==
    IF Has(updatedChecksums, key) /\ Sha256Hex(assetBytes) # updatedChecksums[key]
    THEN updatedReleases
    ELSE Put(updatedReleases, key, assetBytes)

\* lines 226-252: the goroutine of one binary downloads it; it ends on a
\* failure and on a name without OS and architecture
update_Download(task) ==
    /\ Alive /\ impl = "update"
    /\ up.pc \in {"assets", "wait"}
    /\ task \in up.tasks \ up.downloaded
    /\ UNCHANGED <<an, cl, pf, impl, srv, loop, mu, checksums, newFields, oldFields, du, rd>>
    /\ LET called == obs.downloads \cup {[ri |-> task.ri, id |-> task.assetID]}
       IN \/ /\ up' = [up EXCEPT !.tasks = @ \ {task}]  \* the download or io.ReadAll fails
             /\ obs' = [obs EXCEPT !.downloads = called, !.failed = @ \cup {task}]
          \/ /\ IF ArtifactOSArch(task.assetName) # <<>>
                THEN up' = [up EXCEPT !.downloaded = @ \cup {task}]
                ELSE up' = [up EXCEPT !.tasks = @ \ {task}]
             /\ obs' = [obs EXCEPT !.downloads = called]

\* update_Download_Lock taking updateMu whoever holds it
update_Download_Lock_Unguarded(task) ==
    /\ Alive /\ impl = "update"
    /\ task \in up.downloaded \ up.updateMu
    /\ up' = [up EXCEPT !.updateMu = @ \cup {task}]
    /\ UNCHANGED <<an, cl, pf, impl, srv, loop, mu, checksums, newFields, oldFields, du, rd, obs>>

\* line 253: updateMu.Lock() of the goroutine of a binary
update_Download_Lock(task) ==
    /\ Alive /\ impl = "update"
    /\ task \in up.downloaded
    /\ up.updateMu = {}
    /\ up' = [up EXCEPT !.updateMu = {task}]
    /\ UNCHANGED <<an, cl, pf, impl, srv, loop, mu, checksums, newFields, oldFields, du, rd, obs>>

\* lines 254-272: the binary is compared with its checksum and stored,
\* updateMu is released and the goroutine ends (wg.Done)
update_Download_Store(task) ==
    /\ Alive /\ impl = "update"
    /\ task \in up.updateMu
    /\ task # Main
    /\ LET oa == ArtifactOSArch(task.assetName)
       IN up' = [up EXCEPT
                   !.tasks = @ \ {task},
                   !.downloaded = @ \ {task},
                   !.updateMu = @ \ {task},
                   !.updatedReleases =
                       Validate(up.updatedReleases, up.updatedChecksums,
                                releaseKey(task.releaseName, oa[1], oa[2]),
                                AssetBody(task.assetID))]
    /\ UNCHANGED <<an, cl, pf, impl, srv, loop, mu, checksums, newFields, oldFields, du, rd, obs>>

\* Keep carrying over the entries of every listed release, kept or not
RECURSIVE Keep_All(_, _, _, _, _)
Keep_All(rs, toKeep, n, updatedReleases, updatedChecksums) ==
    IF n > Len(rs) THEN <<updatedReleases, updatedChecksums>>
    ELSE LET release == rs[n]
             releaseName == ToLower(release.Name)
             wellFormed == {a \in 1..Len(release.Assets) :
                              /\ HasSuffix(ToLower(release.Assets[a].Name), TarGz)
                              /\ ArtifactOSArch(ToLower(release.Assets[a].Name)) # <<>>}
             keyOf(a) == LET oa == ArtifactOSArch(ToLower(release.Assets[a].Name))
                         IN releaseKey(releaseName, oa[1], oa[2])
             keys == {keyOf(a) : a \in wellFormed} \cap DOMAIN releases
         IN Keep_All(rs, toKeep, n + 1,
                 [k \in (DOMAIN updatedReleases) \cup keys |->
                     IF k \in keys THEN releases[k] ELSE updatedReleases[k]],
                 [k \in (DOMAIN updatedChecksums) \cup (keys \cap DOMAIN checksums) |->
                     IF k \in keys /\ k \in DOMAIN checksums
                     THEN checksums[k] ELSE updatedChecksums[k]])

\* lines 282-314: what the kept releases carry over from the published maps,
\* as <<updatedReleases, updatedChecksums>>
RECURSIVE Keep(_, _, _, _, _)
Keep(rs, toKeep, n, updatedReleases, updatedChecksums) ==
    IF n > Len(toKeep) THEN <<updatedReleases, updatedChecksums>>
    ELSE LET release == rs[toKeep[n]]
             releaseName == ToLower(release.Name)
             wellFormed == {a \in 1..Len(release.Assets) :
                              /\ HasSuffix(ToLower(release.Assets[a].Name), TarGz)
                              /\ ArtifactOSArch(ToLower(release.Assets[a].Name)) # <<>>}
             keyOf(a) == LET oa == ArtifactOSArch(ToLower(release.Assets[a].Name))
                         IN releaseKey(releaseName, oa[1], oa[2])
             keys == {keyOf(a) : a \in wellFormed} \cap DOMAIN releases
         IN Keep(rs, toKeep, n + 1,
                 [k \in (DOMAIN updatedReleases) \cup keys |->
                     IF k \in keys THEN releases[k] ELSE updatedReleases[k]],
                 [k \in (DOMAIN updatedChecksums) \cup (keys \cap DOMAIN checksums) |->
                     IF k \in keys /\ k \in DOMAIN checksums
                     THEN checksums[k] ELSE updatedChecksums[k]])

\* update_Keep going on while goroutines are still at work
update_Keep_NoWait ==
    /\ Alive /\ impl = "update"
    /\ up.pc = "wait"
    /\ up.pending = <<>>
    /\ ~mu.writer
    /\ LET kept == Keep(up.releases, up.toKeep, 1, up.updatedReleases, up.updatedChecksums)
       IN up' = [up EXCEPT !.pc = "publish",
                           !.updatedReleases = kept[1], !.updatedChecksums = kept[2]]
    /\ UNCHANGED <<an, cl, pf, impl, srv, loop, mu, checksums, newFields, oldFields, du, rd, obs>>

\* lines 278-315: wg.Wait returns once every goroutine is done, and the kept
\* releases are carried over under the read lock
update_Keep ==
    /\ Alive /\ impl = "update"
    /\ up.pc = "wait"
    /\ up.pending = <<>>
    /\ up.tasks = {}
    /\ ~mu.writer
    /\ LET kept == Keep(up.releases, up.toKeep, 1, up.updatedReleases, up.updatedChecksums)
       IN up' = [up EXCEPT !.pc = "publish",
                           !.updatedReleases = kept[1], !.updatedChecksums = kept[2]]
    /\ UNCHANGED <<an, cl, pf, impl, srv, loop, mu, checksums, newFields, oldFields, du, rd, obs>>

\* line 317: c.mu.Lock()
update_Lock ==
    /\ Alive /\ impl = "update"
    /\ up.pc = "publish"
    /\ MuFree
    /\ mu' = [mu EXCEPT !.writer = TRUE]
    /\ up' = [up EXCEPT !.pc = "publish_locked"]
    /\ UNCHANGED <<an, cl, pf, impl, srv, loop, checksums, newFields, oldFields, du, rd, obs>>

\* lines 318-326: the publish, and return nil
update_Publish ==
    /\ Alive /\ impl = "update"
    /\ up.pc = "publish_locked"
    /\ versions' = up.updatedVersions
    /\ releases' = up.updatedReleases
    /\ checksums' = up.updatedChecksums
    /\ latest' = up.latest
    /\ mu' = [mu EXCEPT !.writer = FALSE]
    /\ up' = UpIdle
    /\ loop' = AfterCycle("nil")
    /\ obs' = [obs EXCEPT !.lastReturn = "nil", !.listing = up.releases]
    /\ UNCHANGED <<an, cl, pf, impl, srv, newFields, du, rd>>

(***************************************************************************)
(* The shutdown: Server.Stop and the end of the run command                *)
(***************************************************************************)
\* lines 107-109, called by run's RunE (part_000 line 81) on a signal:
\* app.Shutdown closes the listener and returns when no request is being
\* handled any more: the handlers have returned and their frames are gone.
\* Nothing is sent on the cache's stop channel.
Server_Stop ==
    /\ Alive
    /\ srv = "listening"
    /\ \A r \in Readers : rd[r].pc \in {"idle", "done"}
    /\ srv' = "stopped"
    /\ rd' = [r \in Readers |-> RdIdle]
    /\ UNCHANGED <<an, cl, pf, impl, loop, mu, checksums, newFields, oldFields, du, up, obs>>

\* part_000 lines 81-85: Stop has returned, RunE returns and the process
\* exits; its goroutines end with it and nothing of its memory is left
Run_Exit ==
    /\ Alive
    /\ srv = "stopped"
    /\ srv' = "exited"
    /\ loop' = "exited"
    /\ mu' = [writer |-> FALSE, readers |-> {}]
    /\ releaseNames' = {}
    /\ checksums' = EmptyMap
    /\ releaseArtifactNames' = EmptyMap
    /\ latestReleaseName' = <<>>
    /\ latestReleaseArtifacts' = EmptyMap
    /\ versions' = EmptyMap
    /\ releases' = EmptyMap
    /\ latest' = <<>>
    /\ du' = DuIdle
    /\ up' = UpIdle
    /\ rd' = [r \in Readers |-> RdIdle]
    /\ obs' = [begin |-> <<>>, downloads |-> {}, kept |-> {}, lastReturn |-> "none",
               latestStale |-> FALSE, listing |-> <<>>, failed |-> {}]
    /\ UNCHANGED <<an, cl, pf, impl>>

(***************************************************************************)
(* analytics/analytics.go (part_003 is the same package with an id as the  *)
(* first argument of Event): the process-wide handler                      *)
(***************************************************************************)
\* The most calls of Event in a run
MaxEvents == 3

EventNames == {"release_shell", "release_artifact"}

\* A Go map[string]string: nil, or its set of key/value pairs
NilMap == [isNil |-> TRUE, kv |-> {}]

PropertyMaps == {[isNil |-> FALSE, kv |-> {<<"release_name", v>>}] : v \in {"v1", "v2"}}

\* The variadic argument of Event: the callers pass no map or one
PropertyLists == {<<>>} \cup {<<m>> : m \in PropertyMaps}

\* handler: the package variable; received: the calls of handler.Event, in
\* order; cleanups: the calls of handler.Cleanup; calls: history of the calls
\* of Event with whether a handler was installed
AnIdle == [handler |-> "nil", received |-> <<>>, cleanups |-> 0, calls |-> <<>>]

\* lines 41-48
Event(name, properties) ==
    /\ Len(an.calls) < MaxEvents
    /\ an' = [an EXCEPT
                 !.calls = Append(@, [name |-> name, properties |-> properties,
                                      installed |-> an.handler # "nil"]),
                 !.received =
                     IF an.handler # "nil"
                     THEN (IF Len(properties) > 0
                           THEN Append(@, [name |-> name, properties |-> properties[1]])
                           ELSE @) \o <<[name |-> name, properties |-> NilMap]>>
                     ELSE @]
    /\ UNCHANGED <<cl, pf, impl, srv, loop, mu, checksums, newFields, oldFields, du, up,
                   rd, obs>>

\* lines 50-55
Cleanup ==
    /\ an' = IF an.handler # "nil"
             THEN [an EXCEPT !.handler = "nil", !.cleanups = @ + 1]
             ELSE an
    /\ UNCHANGED <<cl, pf, impl, srv, loop, mu, checksums, newFields, oldFields, du, up,
                   rd, obs>>

(***************************************************************************)
(* part_001: the client (pkg/client/client.go has the same steps under the *)
(* names GetBinary, GetChecksum and DownloadVersion)                       *)
(***************************************************************************)
\* The longest artifact a response carries, in bytes
MaxBodyLen == 2

Bodies == UNION {[1..n -> {1, 2}] : n \in 0..MaxBodyLen}

\* What the server or the network can answer to the artifact request
ArtifactResponses ==
    {[err |-> TRUE, status |-> 0, body |-> <<>>]}
        \cup {[err |-> FALSE, status |-> s, body |-> b] : s \in {200, 404}, b \in Bodies}

\* ... and to the checksum request
ChecksumResponses ==
    {[err |-> TRUE, status |-> 0, body |-> <<>>]}
        \cup {[err |-> FALSE, status |-> s, body |-> c] :
                 s \in {200, 404}, c \in {Sha256Hex(b) : b \in Bodies} \cup {<<>>}}

ClIdle ==
    [pc |-> "idle", artifact |-> <<>>, checksum |-> <<>>, body |-> <<>>, sum |-> <<>>,
     ret |-> <<>>]

\* A Go return of ([]byte, error) with a nil slice
NilBytes(err) == [hasBody |-> FALSE, body |-> <<>>, err |-> err]

\* lines 216-228 called at line 231: the request fails or is answered with
\* another status than 200, and DownloadReleaseArtifactAndVerify returns the
\* error; or the body is kept
Client_GetReleaseArtifact ==
    /\ cl.pc = "artifact"
    /\ cl' = IF cl.artifact.err \/ cl.artifact.status # 200
             THEN [cl EXCEPT !.pc = "done", !.ret = NilBytes("errArtifact")]
             ELSE [cl EXCEPT !.pc = "checksum", !.body = cl.artifact.body]
    /\ UNCHANGED <<an, pf, impl, srv, loop, mu, checksums, newFields, oldFields, du, up, rd, obs>>

\* lines 202-214 called at line 236
Client_GetChecksum ==
    /\ cl.pc = "checksum"
    /\ cl' = IF cl.checksum.err \/ cl.checksum.status # 200
             THEN [cl EXCEPT !.pc = "done", !.ret = NilBytes("errChecksum")]
             ELSE [cl EXCEPT !.pc = "verify", !.sum = cl.checksum.body]
    /\ UNCHANGED <<an, pf, impl, srv, loop, mu, checksums, newFields, oldFields, du, up, rd, obs>>

\* DownloadReleaseArtifactAndVerify returning the body without comparing
DownloadReleaseArtifactAndVerify_NoCompare ==
    /\ cl.pc = "verify"
    /\ cl' = [cl EXCEPT !.pc = "done",
                        !.ret = [hasBody |-> TRUE, body |-> cl.body, err |-> "nil"]]
    /\ UNCHANGED <<an, pf, impl, srv, loop, mu, checksums, newFields, oldFields, du, up, rd, obs>>

\* lines 241-245: the comparison of the checksum with the digest of the body
DownloadReleaseArtifactAndVerify ==
    /\ cl.pc = "verify"
    /\ cl' = IF cl.sum # Sha256Hex(cl.body)
             THEN [cl EXCEPT !.pc = "done", !.ret = NilBytes("InvalidChecksumError")]
             ELSE [cl EXCEPT !.pc = "done",
                             !.ret = [hasBody |-> TRUE, body |-> cl.body, err |-> "nil"]]
    /\ UNCHANGED <<an, pf, impl, srv, loop, mu, checksums, newFields, oldFields, du, up, rd, obs>>

(***************************************************************************)
(* The specification                                                       *)
(***************************************************************************)
Init ==
    /\ impl \in {"doUpdate", "update"}
    /\ srv = "created"
    /\ loop = "notStarted"
    /\ mu = [writer |-> FALSE, readers |-> {}]
    /\ releaseNames = {}
    /\ checksums = EmptyMap
    /\ releaseArtifactNames = EmptyMap
    /\ latestReleaseName = <<>>
    /\ latestReleaseArtifacts = EmptyMap
    /\ versions = EmptyMap
    /\ releases = EmptyMap
    /\ latest = <<>>
    /\ du = DuIdle
    /\ up = UpIdle
    /\ rd = [r \in Readers |-> RdIdle]
    /\ pf = PfIdle
    /\ cl = ClIdle
    /\ an = AnIdle
    /\ obs = [begin |-> <<>>, downloads |-> {}, kept |-> {}, lastReturn |-> "none",
              latestStale |-> FALSE, listing |-> <<>>, failed |-> {}]

Next ==
    \/ Server_Start_New
    \/ Server_Start_Listen
    \/ Server_Stop
    \/ Run_Exit
    \/ doUpdate_Start
    \/ doUpdate_List
    \/ doUpdate_Asset
    \/ doUpdate_Lock
    \/ doUpdate_Publish1
    \/ doUpdate_LatestAsset
    \/ doUpdate_Publish2
    \/ update_Start
    \/ update_List
    \/ update_Asset
    \/ update_Checksum_Lock
    \/ update_Checksum_Put
    \/ \E task \in up.tasks : update_Download(task)
    \/ \E task \in up.tasks : update_Download_Lock(task)
    \/ \E task \in up.tasks : update_Download_Store(task)
    \/ update_Keep
    \/ update_Lock
    \/ update_Publish
    \/ \E r \in Readers :
         \/ Call(r)
         \/ RLock(r)
         \/ GetLatestReleaseName(r)
         \/ GetAllReleaseNames(r)
         \/ ReleaseNameExists(r)
         \/ GetChecksum(r)
         \/ GetReleaseArtifactName(r)
         \/ GetLatestReleaseArtifact_Key(r)
         \/ GetLatestReleaseArtifact(r)

Spec == Init /\ [][Next]_vars

\* The refresh loop on its own, while no request arrives: no step of a
\* request handler enables or disables the start of a cycle.  The timer of
\* the loop fires one minute after it was set: a cycle that can start does
\* start.
NextLoop ==
    \/ Server_Start_New
    \/ Server_Start_Listen
    \/ Server_Stop
    \/ Run_Exit
    \/ doUpdate_Start
    \/ doUpdate_List
    \/ doUpdate_Asset
    \/ doUpdate_Lock
    \/ doUpdate_Publish1
    \/ doUpdate_LatestAsset
    \/ doUpdate_Publish2
    \/ update_Start
    \/ update_List
    \/ update_Asset
    \/ update_Checksum_Lock
    \/ update_Checksum_Put
    \/ \E task \in up.tasks : update_Download(task)
    \/ \E task \in up.tasks : update_Download_Lock(task)
    \/ \E task \in up.tasks : update_Download_Store(task)
    \/ update_Keep
    \/ update_Lock
    \/ update_Publish

SpecFair ==
    /\ Init /\ [][NextLoop]_vars
    /\ WF_vars(doUpdate_Start)
    /\ WF_vars(update_Start)

\* Parsing on its own: an asset name or a manifest is drawn, and parsed
\* The refresh loop and the requests for artifacts
NextServe ==
    \/ NextLoop
    \/ \E r \in Readers :
         \/ Server_GetReleaseArtifact(r)
         \/ RLock(r)
         \/ GetLatestReleaseName(r)
         \/ ReleaseNameExists(r)
         \/ GetReleaseArtifactName(r)
         \/ GetLatestReleaseArtifact_Key(r)
         \/ GetLatestReleaseArtifact(r)

SpecServe == Init /\ [][NextServe]_vars

\* The loop and the server as every goroutine of theirs keeps running: the
\* timer fires, a call ends within its 30 s deadline, a goroutine that can
\* take a step takes it
SpecProgress == Init /\ [][NextLoop]_vars /\ WF_vars(NextLoop)

InitParse ==
    /\ impl = "doUpdate"
    /\ srv = "created"
    /\ loop = "notStarted"
    /\ mu = [writer |-> FALSE, readers |-> {}]
    /\ releaseNames = {}
    /\ checksums = EmptyMap
    /\ releaseArtifactNames = EmptyMap
    /\ latestReleaseName = <<>>
    /\ latestReleaseArtifacts = EmptyMap
    /\ versions = EmptyMap
    /\ releases = EmptyMap
    /\ latest = <<>>
    /\ du = DuIdle
    /\ up = UpIdle
    /\ rd = [r \in Readers |-> RdIdle]
    /\ cl = ClIdle
    /\ an = AnIdle
    /\ obs = [begin |-> <<>>, downloads |-> {}, kept |-> {}, lastReturn |-> "none",
              latestStale |-> FALSE, listing |-> <<>>, failed |-> {}]
    /\ \/ \E tokens \in TokenSeqs, suffix \in BOOLEAN :
            pf = [PfIdle EXCEPT !.op = "name", !.pc = "start",
                                !.tokens = tokens, !.suffix = suffix]
       \/ \E n \in 1..MaxLines :
          \E lines \in [1..n -> LineForms], newline \in BOOLEAN :
            pf = [PfIdle EXCEPT !.op = "manifest", !.pc = "start",
                                !.lines = lines, !.newline = newline]

NextParse == Parse_AssetName \/ Parse_Manifest

SpecParse == InitParse /\ [][NextParse]_vars

InitClient ==
    /\ impl = "doUpdate"
    /\ srv = "created"
    /\ loop = "notStarted"
    /\ mu = [writer |-> FALSE, readers |-> {}]
    /\ releaseNames = {}
    /\ checksums = EmptyMap
    /\ releaseArtifactNames = EmptyMap
    /\ latestReleaseName = <<>>
    /\ latestReleaseArtifacts = EmptyMap
    /\ versions = EmptyMap
    /\ releases = EmptyMap
    /\ latest = <<>>
    /\ du = DuIdle
    /\ up = UpIdle
    /\ rd = [r \in Readers |-> RdIdle]
    /\ obs = [begin |-> <<>>, downloads |-> {}, kept |-> {}, lastReturn |-> "none",
              latestStale |-> FALSE, listing |-> <<>>, failed |-> {}]
    /\ pf = PfIdle
    /\ \E a \in ArtifactResponses, c \in ChecksumResponses :
         cl = [ClIdle EXCEPT !.pc = "artifact", !.artifact = a, !.checksum = c]
    /\ an = AnIdle

NextClient ==
    \/ Client_GetReleaseArtifact
    \/ Client_GetChecksum
    \/ DownloadReleaseArtifactAndVerify

SpecClient == InitClient /\ [][NextClient]_vars

\* analytics.go init(): posthog.Init() gives a handler or nil
InitAnalytics ==
    /\ impl = "doUpdate"
    /\ srv = "created"
    /\ loop = "notStarted"
    /\ mu = [writer |-> FALSE, readers |-> {}]
    /\ releaseNames = {}
    /\ checksums = EmptyMap
    /\ releaseArtifactNames = EmptyMap
    /\ latestReleaseName = <<>>
    /\ latestReleaseArtifacts = EmptyMap
    /\ versions = EmptyMap
    /\ releases = EmptyMap
    /\ latest = <<>>
    /\ du = DuIdle
    /\ up = UpIdle
    /\ rd = [r \in Readers |-> RdIdle]
    /\ obs = [begin |-> <<>>, downloads |-> {}, kept |-> {}, lastReturn |-> "none",
              latestStale |-> FALSE, listing |-> <<>>, failed |-> {}]
    /\ pf = PfIdle
    /\ cl = ClIdle
    /\ \E h \in {"nil", "posthog"} : an = [AnIdle EXCEPT !.handler = h]

NextAnalytics ==
    \/ \E name \in EventNames, properties \in PropertyLists : Event(name, properties)
    \/ Cleanup

SpecAnalytics == InitAnalytics /\ [][NextAnalytics]_vars

(***************************************************************************)
(* Properties of part_002's cache                                          *)
(***************************************************************************)
ErrReturns == {"errList", "errManifest", "errBinary"}

\* What GetChecksum / GetReleaseArtifactName return when the existence check
\* and the lookup are both done on the tables of snap
ResultIn(op, snap, name, os, arch) ==
    LET table == IF op = "GetChecksum" THEN snap[2] ELSE snap[3]
        key == toArtifactKey(name, os, arch)
    IN IF name \in snap[1] /\ Has(table, key) THEN table[key] ELSE <<>>

TwoStep(r) == rd[r].pc = "done" /\ rd[r].op \in {"GetChecksum", "GetReleaseArtifactName"}

\* C1 as claimed: the existence check and the lookup of one GetChecksum or
\* GetReleaseArtifactName call read the same snapshot of (releaseNames,
\* checksums, releaseArtifactNames).
C1_CheckAndLookupSameSnapshot ==
    \A r \in Readers : (TwoStep(r) /\ rd[r].snap2 # <<>>) => rd[r].snap1 = rd[r].snap2

\* C1 as amended: the result of every GetChecksum / GetReleaseArtifactName call
\* is the result one snapshot gives, the one read by the existence check or the
\* one read by the lookup, although the two reads may see different snapshots.
C1_ResultOfOneSnapshot ==
    \A r \in Readers :
        TwoStep(r) =>
            \/ rd[r].res = ResultIn(rd[r].op, rd[r].snap1, rd[r].name, rd[r].os, rd[r].arch)
            \/ /\ rd[r].snap2 # <<>>
               /\ rd[r].res = ResultIn(rd[r].op, rd[r].snap2, rd[r].name, rd[r].os, rd[r].arch)

\* A call whose two reads saw different snapshots and that found an entry
C1_Witness ==
    \E r \in Readers :
        /\ TwoStep(r) /\ rd[r].snap2 # <<>> /\ rd[r].snap1 # rd[r].snap2
        /\ rd[r].res # <<>>

\* C2: whenever a reader can take the lock, the latest name and the latest
\* blobs are of the same cycle as the release set, the checksums and the
\* artifact names.
C2_OnePublishStep == ~mu.writer => ~obs.latestStale

\* C3: when doUpdate has returned an error, the five published fields are
\* those of the start of that cycle.
C3_ErrorKeepsSnapshot ==
    (impl = "doUpdate" /\ du.pc = "idle" /\ obs.lastReturn \in ErrReturns)
        => Snapshot = obs.begin

\* C4: when ListReleases fails the cycle returns with every cache field as it
\* was at the start of the cycle and without a download.
C4_ListFailureTouchesNothing ==
    obs.lastReturn = "errList" => (Snapshot = obs.begin /\ obs.downloads = {})

\* A failed listing in a cycle that started with a filled cache
C4_Witness ==
    /\ obs.lastReturn = "errList"
    /\ loop = "waiting"
    /\ obs.begin[2] # EmptyMap

\* C5: no request handler is at work on the cache while the initial cycle has
\* not returned.
C5_NoRequestBeforeFirstCycle ==
    \A r \in Readers : rd[r].pc # "idle" => loop # "initial"

\* C8: every key of latestReleaseArtifacts carries latestReleaseName, and a
\* blob that GetLatestReleaseArtifact returns is stored under the name that
\* is the latest one when it is looked up.
C8_BlobsOfLatestOnly ==
    /\ [](\A k \in DOMAIN latestReleaseArtifacts : k[1] = latestReleaseName)
    /\ [][\A r \in Readers :
            (/\ rd[r].op = "GetLatestReleaseArtifact"
             /\ rd[r].pc = "lookup_read"
             /\ rd'[r].pc = "done"
             /\ rd'[r].res # <<>>) => rd[r].key[1] = latestReleaseName]_vars

\* The latest release has changed from one with blobs to another with blobs
C8_Witness ==
    /\ latestReleaseName = <<"v", "2">>
    /\ DOMAIN latestReleaseArtifacts # {}
    /\ obs.begin # <<>>
    /\ obs.begin[4] = <<"v", "1">>
    /\ obs.begin[5] # EmptyMap
    /\ \E r \in Readers :
         /\ rd[r].op = "GetLatestReleaseArtifact" /\ rd[r].pc = "done"
         /\ rd[r].key[1] = <<"v", "2">> /\ rd[r].res # <<>>

\* C11: doUpdate makes no upstream call for an asset of a release whose
\* commit reference is the one it had in the listing of the last cycle that
\* returned nil; in particular it does not download the manifest of such a
\* release again.
C11_NoCallForSameCommit ==
    impl = "doUpdate" => \A d \in obs.downloads : \A e \in obs.kept : d.ri # e.ri

\* C17: the existence check that ReleaseNameExists, GetChecksum and
\* GetReleaseArtifactName make for a release name gives what it gives, in the
\* same state, for the name in lower case, which is the form the release set
\* holds: the letter case of the argument makes no difference.
C17_CaseInsensitiveLookup ==
    [][\A r \in Readers :
         (rd[r].pc = "exists_read" /\ rd'[r].pc \in {"done", "lookup_rlock"}) =>
            LET found == IF rd[r].op = "ReleaseNameExists"
                         THEN rd'[r].res
                         ELSE rd'[r].pc = "lookup_rlock"
            IN found = (ToLower(rd[r].name) \in releaseNames)]_vars

\* C18: a checksum lookup or an artifact name lookup for a release name that
\* is not in the release set, when the existence check or when the lookup
\* reads it, returns the empty value and its handler answers 404; the
\* existence check for such a name returns false and the install script
\* handler answers 404.  No accessor has a failing path.
C18_UnknownReleaseNotFound ==
    /\ [](\A r \in Readers :
            (/\ TwoStep(r)
             /\ \/ rd[r].name \notin rd[r].snap1[1]
                \/ rd[r].snap2 # <<>> /\ rd[r].name \notin rd[r].snap2[1])
                => (rd[r].res = <<>> /\ HandlerStatus(rd[r].op, rd[r].res) = 404))
    /\ [][\A r \in Readers :
            (/\ rd[r].op = "ReleaseNameExists" /\ rd[r].pc = "exists_read"
             /\ rd'[r].pc = "done"
             /\ rd[r].name \notin releaseNames)
                => (rd'[r].res = FALSE /\ HandlerStatus(rd[r].op, rd'[r].res) = 404)]_vars

\* A lookup for a release that the existence check found and that a cycle
\* has removed from the release set before the lookup
C18_Witness ==
    \E r \in Readers :
        /\ TwoStep(r)
        /\ rd[r].name \in rd[r].snap1[1]
        /\ rd[r].snap2 # <<>> /\ rd[r].name \notin rd[r].snap2[1]
        /\ rd[r].snap2[2] # EmptyMap

\* C19: once Server.Stop has returned, no further refresh cycle starts: from
\* a state in which the server is stopped and the refresh loop waits for its
\* timer, the loop takes no step.
C19_NoCycleAfterStop ==
    [][(srv = "stopped" /\ loop = "waiting" /\ du.pc = "idle" /\ up.pc = "idle")
          => (srv' = "exited" \/ (du' = du /\ up' = up /\ obs' = obs))]_vars

\* The ".tar.gz" assets of release whose names have an OS and an architecture,
\* as places in release.Assets
WellFormedAssets(release) ==
    {a \in 1..Len(release.Assets) :
        /\ HasSuffix(ToLower(release.Assets[a].Name), TarGz)
        /\ ArtifactOSArch(ToLower(release.Assets[a].Name)) # <<>>}

\* The key of part_002 for the asset at place a of release
AssetKey(release, a) ==
    LET oa == ArtifactOSArch(ToLower(release.Assets[a].Name))
    IN toArtifactKey(ToLower(release.Name), oa[1], oa[2])

\* One entry for every well-formed asset of release: under each key the
\* bytes of the asset listed last with that key
BlobsOf(release) ==
    LET wf == WellFormedAssets(release)
        last(k) == CHOOSE a \in wf :
                      /\ AssetKey(release, a) = k
                      /\ \A b \in wf : AssetKey(release, b) = k => b <= a
    IN [k \in {AssetKey(release, a) : a \in wf} |->
          AssetBody(release.Assets[last(k)].ID)]

\* C32: when a doUpdate cycle returns nil having changed the latest release
\* name, the blob table it publishes is one entry for every well-formed
\* ".tar.gz" asset of the first listed release and nothing else, and each of
\* these assets was downloaded in this cycle, whatever the commit reference
\* of the release.
C32_LatestBlobsDownloaded ==
    [][(/\ impl = "doUpdate" /\ du.pc = "publish2_locked"
        /\ obs'.lastReturn = "nil"
        /\ latestReleaseName' # latestReleaseName) =>
          /\ latestReleaseArtifacts' = BlobsOf(du.releases[1])
          /\ \A a \in WellFormedAssets(du.releases[1]) :
                [ri |-> 1, id |-> du.releases[1].Assets[a].ID] \in obs.downloads]_vars

\* A cycle has returned nil after it changed the latest release from one with
\* blobs to one listed with the commit reference it had before, and holds
\* the blobs of the new one
C32_Witness ==
    /\ impl = "doUpdate" /\ du.pc = "idle"
    /\ obs.lastReturn = "nil"
    /\ obs.begin # <<>>
    /\ obs.begin[4] # latestReleaseName
    /\ obs.begin[5] # EmptyMap
    /\ latestReleaseArtifacts # EmptyMap
    /\ \E e \in obs.kept : e.ri = 1

\* C33: a doUpdate cycle that returns nil and leaves the latest release name
\* as it was leaves every blob of the table in place: what
\* GetLatestReleaseArtifact returned for an (os, arch) before the cycle it
\* returns after it.
C33_LatestBlobsStay ==
    [][(/\ impl = "doUpdate" /\ du.pc = "publish2_locked"
        /\ obs'.lastReturn = "nil"
        /\ latestReleaseName' = latestReleaseName) =>
          \A k \in DOMAIN latestReleaseArtifacts :
              /\ Has(latestReleaseArtifacts', k)
              /\ latestReleaseArtifacts'[k] = latestReleaseArtifacts[k]]_vars

\* C34: whenever a reader can take the lock, a latest release name that is
\* not "" is in the release set.
C34_LatestIsListed ==
    (impl = "doUpdate" /\ ~mu.writer /\ latestReleaseName # <<>>) =>
        latestReleaseName \in releaseNames

\* C35: an accessor reads a shared field of the cache only while it holds the
\* read lock, and so never while the cycle holds the write lock.
C35_ReadsUnderLock ==
    [][\A r \in Readers :
         (/\ rd[r].pc \in {"read", "exists_read", "lookup_read", "key"}
          /\ rd'[r].pc # rd[r].pc
          /\ srv' = srv) => (r \in mu.readers /\ ~mu.writer)]_vars

\* C36: the bytes with which Server.GetReleaseArtifact answers a request for
\* release R were stored under the name R.
C36_BlobOfRequestedRelease ==
    \A r \in Readers :
        (/\ rd[r].handler = "GetReleaseArtifact" /\ rd[r].pc = "done"
         /\ rd[r].op = "GetLatestReleaseArtifact"
         /\ rd[r].res # <<>>) => rd[r].key[1] = rd[r].name

\* The steps that release the cache lock
ReleaseStep ==
    \/ doUpdate_Publish1 \/ doUpdate_Publish2 \/ update_Publish
    \/ \E r \in Readers :
         \/ GetLatestReleaseName(r) \/ GetAllReleaseNames(r) \/ ReleaseNameExists(r)
         \/ GetChecksum(r) \/ GetReleaseArtifactName(r) \/ GetLatestReleaseArtifact(r)

\* C37: an accessor about to take the read lock does not hold it, and the
\* cycle about to take the write lock does not hold it; a lock is held only
\* at a place whose next step releases it, the holder can always take that
\* step, and a cycle that has returned, with or without an error, and an
\* accessor that has returned hold no lock.
C37_NoDeadlockOnCacheLock ==
    /\ \A r \in Readers :
         /\ rd[r].pc \in {"rlock", "exists_rlock", "lookup_rlock"} => r \notin mu.readers
         /\ r \in mu.readers <=> rd[r].pc \in {"read", "exists_read", "lookup_read"}
    /\ (du.pc \in {"publish1", "publish2"} \/ up.pc = "publish") => ~mu.writer
    /\ mu.writer <=> (\/ du.pc \in {"publish1_locked", "publish2_locked"}
                      \/ up.pc = "publish_locked")
    /\ (du.pc = "idle" /\ up.pc = "idle") => ~mu.writer
    /\ mu.writer => mu.readers = {}
    /\ (Alive /\ (mu.writer \/ mu.readers # {})) => ENABLED ReleaseStep

\* An accessor has released the read lock of its existence check and is
\* about to take it again while the cycle waits for the write lock
C37_Witness ==
    /\ \E r \in Readers : rd[r].pc = "lookup_rlock"
    /\ du.pc \in {"publish1", "publish2"}
    /\ obs.lastReturn = "running"

(***************************************************************************)
(* Properties of cache.go's cache                                          *)
(***************************************************************************)
\* C6: every binary of the published releases map has an entry in the
\* published checksum table.
C6_BinaryOnlyWithChecksum ==
    impl = "update" => \A k \in DOMAIN releases : Has(checksums, k)

\* C7: no published binary has a digest other than the checksum published
\* for its key.
C7_NoBinaryAgainstItsChecksum ==
    impl = "update" =>
        \A k \in DOMAIN releases :
            Has(checksums, k) => Sha256Hex(releases[k]) = checksums[k]

\* C9: after a cycle that returned nil, each checksum entry that a release
\* classified unchanged had at the start of the cycle is there with the same
\* value.
C9_UnchangedKeepsChecksums ==
    (impl = "update" /\ up.pc = "idle" /\ obs.lastReturn = "nil") =>
        \A e \in obs.kept :
            \A k \in DOMAIN obs.begin[3] :
                k.Version = e.name => (Has(checksums, k) /\ checksums[k] = obs.begin[3][k])

\* C10: no download of the cycle is for an asset of a release that the cycle
\* classified unchanged.
C10_NoDownloadForUnchanged ==
    impl = "update" => \A d \in obs.downloads : \A e \in obs.kept : d.ri # e.ri

\* A cycle that keeps one release and downloads the assets of another
C10_Witness ==
    /\ impl = "update"
    /\ obs.kept # {}
    /\ Cardinality(obs.downloads) >= 2
    /\ obs.lastReturn = "nil"

\* The checksum entries that the manifests of release carry, under the keys of
\* cache.go
ParsedChecksums(release) ==
    LET manifests == SelectSeq(release.Assets, LAMBDA a : ToLower(a.Name) = ChecksumsTxt)
        entriesOf(a) == ManifestEntries(AssetBody(a.ID))
        kvsOf(a) == [i \in 1..Len(entriesOf(a)) |->
                       <<releaseKey(ToLower(release.Name), entriesOf(a)[i][1],
                                    entriesOf(a)[i][2]), entriesOf(a)[i][3]>>]
        all[n \in 0..Len(manifests)] ==
            IF n = 0 THEN EmptyMap ELSE PutAll(all[n - 1], kvsOf(manifests[n]))
    IN all[Len(manifests)]

C13_KeysOfListedReleases ==
    /\ impl = "doUpdate" =>
          \A k \in (DOMAIN checksums) \cup (DOMAIN releaseArtifactNames) :
              k[1] \in releaseNames
    /\ impl = "update" => \A k \in DOMAIN checksums : Has(versions, k.Version)

\* Between the two publish steps of a cycle that has changed the release set
\* and has published checksums and artifact names
C13_Witness ==
    /\ impl = "doUpdate"
    /\ du.pc \in {"latest", "publish2"}
    /\ ~mu.writer
    /\ checksums # EmptyMap /\ releaseArtifactNames # EmptyMap
    /\ obs.begin[1] # {} /\ obs.begin[1] # releaseNames

\* The last cycle returned nil and its listing was not empty
CycleDoneOnListing ==
    /\ du.pc = "idle" /\ up.pc = "idle"
    /\ obs.lastReturn = "nil"
    /\ Len(obs.listing) > 0

\* C14: after a cycle that returned nil on a non-empty listing, the latest
\* name of the cache, and what GetLatestReleaseName then returns, is the
\* lower-cased name of the first release of that listing.
C14_LatestIsFirstListed ==
    /\ [](CycleDoneOnListing =>
            (IF impl = "doUpdate" THEN latestReleaseName ELSE latest)
                = ToLower(obs.listing[1].Name))
    /\ [][\A r \in Readers :
            (/\ CycleDoneOnListing
             /\ rd[r].op = "GetLatestReleaseName" /\ rd[r].pc = "read"
             /\ rd'[r].pc = "done")
                => rd'[r].res = ToLower(obs.listing[1].Name)]_vars

\* GetLatestReleaseName has answered after a cycle on a listing of two releases
C14_Witness ==
    /\ CycleDoneOnListing
    /\ Len(obs.listing) = 2
    /\ \E r \in Readers :
         /\ rd[r].op = "GetLatestReleaseName" /\ rd[r].pc = "done"
         /\ rd[r].res = ToLower(obs.listing[1].Name)
         /\ rd[r].res # ToLower(obs.listing[2].Name)

(***************************************************************************)
(* Properties of the parsing                                               *)
(***************************************************************************)
\* C15: an asset name of at least three tokens yields one entry, under the
\* third token as OS and the tokens after the third, joined with "_", as
\* architecture (the empty string when there are none); a name of fewer
\* tokens yields no entry; in both cases the cycle goes on.
C15_KeyOfFileName ==
    (pf.op = "name" /\ pf.pc = "done" /\ pf.suffix) =>
        /\ pf.err = "nil"
        /\ IF Len(pf.tokens) >= 3
           THEN DOMAIN pf.table =
                  {toArtifactKey(ParseRelease, pf.tokens[3],
                       IF Len(pf.tokens) = 3 THEN <<>>
                       ELSE Join(SubSeq(pf.tokens, 4, Len(pf.tokens)), Underscore))}
           ELSE pf.table = EmptyMap

\* A name of five tokens has been parsed: its architecture has two tokens
C15_Witness ==
    /\ pf.op = "name" /\ pf.pc = "done" /\ pf.suffix
    /\ Len(pf.tokens) = 5
    /\ \E k \in DOMAIN pf.table : k[3] = pf.tokens[4] \o Underscore \o pf.tokens[5]

\* Line i of the manifest has the form "<digest>  <file>.tar.gz" with a file
\* name of at least three tokens
WellFormedLine(i) ==
    /\ pf.lines[i].sep = TwoSpaces
    /\ pf.lines[i].suffix
    /\ Len(pf.lines[i].tokens) >= 3

KeyOfLine(i) ==
    LET tokens == pf.lines[i].tokens
    IN toArtifactKey(ParseRelease, tokens[3],
                     Join(SubSeq(tokens, 4, Len(tokens)), Underscore))

\* C16: every line of the manifest that has the form "<digest>  <file>.tar.gz"
\* with a file name of at least three tokens gives the table an entry for its
\* key, with the digest of the last such line of that key; no other line
\* gives an entry, and the cycle goes on.
C16_EntryOfEveryLine ==
    (pf.op = "manifest" /\ pf.pc = "done") =>
        /\ pf.err = "nil"
        /\ \A i \in 1..Len(pf.lines) :
              WellFormedLine(i) =>
                 /\ Has(pf.table, KeyOfLine(i))
                 /\ (\A j \in (i + 1)..Len(pf.lines) :
                        ~(WellFormedLine(j) /\ KeyOfLine(j) = KeyOfLine(i)))
                       => pf.table[KeyOfLine(i)] = Digest(i)
        /\ \A k \in DOMAIN pf.table :
              \E i \in 1..Len(pf.lines) : WellFormedLine(i) /\ KeyOfLine(i) = k

\* C38: a well-formed last line of a manifest gives the table its entry also
\* when no newline follows it.
C38_UnterminatedLastLine ==
    (/\ pf.op = "manifest" /\ pf.pc = "done"
     /\ ~pf.newline
     /\ Len(pf.lines) >= 1
     /\ WellFormedLine(Len(pf.lines))) =>
        /\ Has(pf.table, KeyOfLine(Len(pf.lines)))
        /\ pf.table[KeyOfLine(Len(pf.lines))] = Digest(Len(pf.lines))

\* C20: a refresh cycle starts only when the cycle before it has returned and
\* has left no download task behind; so no two cycles are in progress at once.
C20_OneCycleAtATime ==
    [][(doUpdate_Start \/ update_Start)
          => (obs.lastReturn # "running" /\ du.pc = "idle" /\ up.pc = "idle"
              /\ up.tasks = {})]_vars

\* A cycle after the first, started by the timer, is in progress
C20_Witness ==
    /\ loop = "waiting"
    /\ obs.lastReturn = "running"
    /\ du.pc # "idle" \/ up.pc # "idle"
    /\ obs.begin[2] # EmptyMap

\* A step in which the running cycle returns
CycleReturns ==
    /\ obs.lastReturn = "running"
    /\ obs'.lastReturn \in ErrReturns \cup {"nil"}

\* C21: when a cycle returns an error the loop panics if the cycle is the
\* first one and goes on waiting for its timer otherwise; a cycle that
\* returns nil never makes it panic; and a panic ends the process.
C21_FatalOnlyInFirstCycle ==
    /\ [][CycleReturns =>
            loop' = (IF loop = "initial" /\ obs'.lastReturn \in ErrReturns
                     THEN "panicked" ELSE "waiting")]_vars
    /\ [][loop = "panicked" => UNCHANGED vars]_vars

\* A later cycle has returned an error and the loop waits for the next tick
C21_Witness ==
    /\ loop = "waiting"
    /\ obs.lastReturn \in ErrReturns
    /\ du.pc = "idle" /\ up.pc = "idle"

\* C22: whenever a cycle has returned and the process goes on running (the
\* loop has not panicked, the run command has not ended), another cycle is
\* eventually started, unless the process ends first.
C22_NextCycleStarts ==
    (obs.lastReturn \in ErrReturns \cup {"nil"} /\ Alive)
        ~> (obs.lastReturn = "running" \/ ~Alive)

\* A cycle after the first has been started by the timer and waits for the
\* answer of ListReleases
C22_Witness ==
    /\ loop = "waiting"
    /\ obs.lastReturn = "running"
    /\ obs.begin[2] = EmptyMap
    /\ du.pc = "list" \/ up.pc = "list"

\* The cycle is at a place where an upstream call is outstanding or is the
\* next thing it does: ListReleases, or the download of an asset
AtUpstreamCall ==
    \/ du.pc \in {"list", "assets", "latest"}
    \/ up.pc \in {"list", "assets", "wait"}

\* A step in which the cycle makes, or gets the answer of, an upstream call
UpstreamCallStep ==
    \/ du.pc = "list" /\ du'.pc # "list"
    \/ up.pc = "list" /\ up'.pc # "list"
    \/ obs'.downloads # obs.downloads /\ obs'.downloads # {}

\* C23: the cycle holds the write lock in its publish sections only, never
\* where an upstream call is outstanding, and holds no lock across a step
\* that makes an upstream call; a reader can take the read lock meanwhile.
C23_NoLockDuringUpstreamCall ==
    /\ [](AtUpstreamCall => ~mu.writer)
    /\ [](mu.writer => (du.pc \in {"publish1_locked", "publish2_locked"}
                          \/ up.pc = "publish_locked"))
    /\ [][UpstreamCallStep => (~mu.writer /\ ~mu'.writer)]_vars

\* A reader holds the read lock while ListReleases or a download of the cycle
\* is outstanding
C23_Witness ==
    /\ mu.readers # {}
    /\ du.pc \in {"list", "latest"}
    /\ obs.lastReturn = "running"

\* C24: in doUpdate no cycle returns the error of a failed download of a
\* binary of the latest release: the cycle goes on to its second publish.
C24_BinaryFailureDoesNotAbort ==
    impl = "doUpdate" => obs.lastReturn # "errBinary"

\* The download tasks update starts for the binaries of the listing rs
TasksOf(rs) ==
    UNION {{[ri |-> j, releaseName |-> ToLower(rs[j].Name),
             assetID |-> rs[j].Assets[a].ID,
             assetName |-> ToLower(rs[j].Assets[a].Name)] :
               a \in {b \in 1..Len(rs[j].Assets) :
                        HasSuffix(ToLower(rs[j].Assets[b].Name), TarGz)}} :
           j \in 1..Len(rs)}

AllTasks == UNION {TasksOf(ListingTable[i]) : i \in 1..Len(ListingTable)}

\* The key update stores the binary of task under
TaskKey(task) ==
    LET oa == ArtifactOSArch(task.assetName)
    IN releaseKey(task.releaseName, oa[1], oa[2])

\* The binary of task would be stored once downloaded: its name has an OS and
\* an architecture, and its bytes match the manifest of its release in rs
Storable(task, rs) ==
    /\ task \in TasksOf(rs)
    /\ ArtifactOSArch(task.assetName) # <<>>
    /\ LET sums == ParsedChecksums(rs[task.ri])
       IN Has(sums, TaskKey(task)) =>
             sums[TaskKey(task)] = Sha256Hex(AssetBody(task.assetID))

\* The binary of task is in the published releases map
BinaryPublished(task) ==
    /\ ArtifactOSArch(task.assetName) # <<>>
    /\ Has(releases, TaskKey(task))

\* update has published a cycle in which the download of task failed
FailedAndPublished(task) ==
    /\ impl = "update" /\ Alive
    /\ obs.lastReturn = "nil"
    /\ task \in obs.failed
    /\ Storable(task, obs.listing)

\* Since the last publish the loop has ended, a cycle has returned an error,
\* a download has failed or the listing has changed
UpstreamTrouble ==
    \/ ~Alive
    \/ obs.lastReturn \in ErrReturns
    \/ obs.lastReturn = "running" /\ obs.failed # {}
    \/ obs.lastReturn = "running" /\ up.pc \notin {"idle", "list"}
          /\ up.releases # obs.listing

\* C25: when update has published a cycle in which the download of a binary
\* failed, then, unless an upstream call fails or the listing changes in a
\* later cycle, the binary is eventually in the published releases map.
C25_FailedBinaryRetried ==
    \A task \in AllTasks :
        FailedAndPublished(task) ~>
            (BinaryPublished(task) \/ UpstreamTrouble)

\* C26: a request for release n (lower-cased), os and arch is answered, when
\* n is the latest name the handler reads, with the blob held for (n, os,
\* arch) at the lookup or with not-found when none is held, and else with
\* the redirect to the file name recorded for (n, os, arch) at the lookup or
\* with not-found when none is recorded; bytes are served for the latest
\* release only.
C26_ArtifactPolicy ==
    \A r \in Readers :
        (rd[r].handler = "GetReleaseArtifact" /\ rd[r].pc = "done") =>
            GetReleaseArtifact_Response(rd[r].op, rd[r].name, rd[r].res)
                = rd[r].expect

\* C28: after a doUpdate cycle that has returned nil the release set is the
\* set of the lower-cased names of the listing of that cycle, and with an
\* empty listing the release set is empty and the latest name is "".
C28_ReleaseSetIsListing ==
    (impl = "doUpdate" /\ obs.lastReturn = "nil") =>
        /\ releaseNames = {ToLower(obs.listing[i].Name) : i \in 1..Len(obs.listing)}
        /\ obs.listing = <<>> => latestReleaseName = <<>>

\* The places of the sequence of places s
Places(s) == {s[i] : i \in 1..Len(s)}

\* C29: update classifies a release of the listing changed exactly when no
\* commit reference is recorded for its lower-cased name or the recorded one
\* differs from the listed one, and unchanged otherwise; the recorded
\* references change at the publish of a cycle only, so a cycle that
\* returns an error leaves them as they were when it began.
C29_DiffRule ==
    /\ [][(impl = "update" /\ up.pc = "list" /\ up'.pc # "idle") =>
            \A i \in 1..Len(up'.releases) :
                LET name == ToLower(up'.releases[i].Name)
                    differs == \/ name \notin DOMAIN versions
                               \/ versions[name] # up'.releases[i].TargetCommitish
                IN /\ (i \in Places(up'.toUpdate)) <=> differs
                   /\ (i \in Places(up'.toKeep)) <=> ~differs]_vars
    /\ [][(impl = "update" /\ versions' # versions /\ srv' # "exited") =>
            /\ up.pc = "publish_locked"
            /\ obs'.lastReturn = "nil"
            /\ versions' = up.updatedVersions]_vars
    /\ []((impl = "update" /\ obs.lastReturn \in ErrReturns) =>
            versions = obs.begin[1])

\* A listed release is classified changed because its commit reference is
\* not the recorded one
C29_Witness ==
    /\ impl = "update"
    /\ up.pc \in {"assets", "wait"}
    /\ \E i \in Places(up.toUpdate) :
          /\ ToLower(up.releases[i].Name) \in DOMAIN versions
          /\ versions[ToLower(up.releases[i].Name)] # up.releases[i].TargetCommitish

\* C30: update is at its publish only when no download task of the cycle is
\* left, the published maps change only then, and a step of a download task
\* is taken before the publish and changes no published map.
C30_PublishAfterAllTasks ==
    /\ []((impl = "update" /\ up.pc \in {"publish", "publish_locked"}) =>
            up.tasks = {})
    /\ [][(impl = "update" /\ srv' # "exited"
              /\ (releases' # releases \/ checksums' # checksums)) =>
            (up.pc = "publish_locked" /\ up.tasks = {})]_vars
    /\ [][(impl = "update" /\ up'.tasks # up.tasks /\ up'.pc # "idle") =>
            /\ up.pc \in {"assets", "wait"}
            /\ UNCHANGED <<checksums, oldFields>>]_vars

\* update is at its publish after one download task failed and another one
\* stored its binary
C30_Witness ==
    /\ impl = "update"
    /\ up.pc = "publish_locked"
    /\ obs.failed # {}
    /\ up.updatedReleases # EmptyMap

\* C31: in update, while a download task of the cycle is left, the
\* accumulators updatedChecksums and updatedReleases are read and written by
\* the holder of updateMu only; updateMu has one holder at most, and taking
\* or releasing it neither needs nor changes the cache's main lock.
C31_AccumulatorsUnderUpdateMu ==
    /\ [](Cardinality(up.updateMu) <= 1)
    /\ [][(impl = "update" /\ up.tasks # {} /\ up'.pc # "idle"
              /\ (up'.updatedChecksums # up.updatedChecksums
                     \/ up'.updatedReleases # up.updatedReleases)) =>
            up.updateMu # {}]_vars
    /\ [][\A task \in up.downloaded :
              (task \notin up'.downloaded /\ up'.pc # "idle") => up.updateMu = {task}]_vars
    /\ [][up'.updateMu # up.updateMu => mu' = mu]_vars

\* The goroutine of a binary holds updateMu while the goroutine of another
\* binary, which has its bytes, waits for it
C31_Witness ==
    /\ up.updateMu # {} /\ Main \notin up.updateMu
    /\ up.downloaded \ up.updateMu # {}

(***************************************************************************)
(* Properties of the client                                                *)
(***************************************************************************)
Answered(response) == ~response.err /\ response.status = 200

\* C27: DownloadReleaseArtifactAndVerify returns bytes only when both
\* requests were answered and the checksum served is the SHA-256 of the
\* bytes received, and then those bytes; when the two differ it returns
\* InvalidChecksumError and no bytes; the error of either request is returned
\* with no bytes.
C27_BytesOnlyWhenVerified ==
    cl.pc = "done" =>
        /\ cl.ret.hasBody =>
              /\ Answered(cl.artifact) /\ Answered(cl.checksum)
              /\ cl.checksum.body = Sha256Hex(cl.artifact.body)
              /\ cl.ret.body = cl.artifact.body
              /\ cl.ret.err = "nil"
        /\ (Answered(cl.artifact) /\ Answered(cl.checksum)
              /\ cl.checksum.body # Sha256Hex(cl.artifact.body)) =>
                 cl.ret = NilBytes("InvalidChecksumError")
        /\ ~Answered(cl.artifact) => cl.ret = NilBytes("errArtifact")
        /\ (Answered(cl.artifact) /\ ~Answered(cl.checksum)) =>
              cl.ret = NilBytes("errChecksum")

\* The call has ended on a checksum that is not the digest of the bytes
\* received
C27_Witness ==
    /\ cl.pc = "done"
    /\ Answered(cl.artifact) /\ Answered(cl.checksum)
    /\ cl.checksum.body # Sha256Hex(cl.artifact.body)
    /\ cl.artifact.body # <<>>

(***************************************************************************)
(* Properties of the analytics package                                     *)
(***************************************************************************)
RECURSIVE Deliveries(_)
\* What the handler is to receive for a history of calls: one event for each
\* call made while it was installed, with the map passed or with none
Deliveries(calls) ==
    IF calls = <<>> THEN <<>>
    ELSE LET c == calls[Len(calls)]
             before == Deliveries(SubSeq(calls, 1, Len(calls) - 1))
         IN IF c.installed
            THEN Append(before,
                        [name |-> c.name,
                         properties |-> IF Len(c.properties) > 0 THEN c.properties[1]
                                        ELSE NilMap])
            ELSE before

\* C39: the handler receives exactly one event for each call of Event made
\* while it is installed, with the properties passed or with none, and nothing
\* for a call made without a handler or after Cleanup.
C39_OneEventPerCall == an.received = Deliveries(an.calls)

====
